---- MODULE Spec2Model ----
(***************************************************************************)
(* LemLib/units: the dimensional type algebra (Quantity, Isomorphic,       *)
(* Multiplied / Divided / Exponentiated / Rooted, LookupName / Named, the  *)
(* NEW_UNIT declarations) and the arithmetic on the stored magnitude.      *)
(*                                                                         *)
(* Spec     the translation unit: the declarations of the headers are      *)
(*          processed in source order, then user code declares units,      *)
(*          names types and forms operator expressions.                    *)
(* SpecRun  the compiled program: operators applied to quantity values.    *)
(***************************************************************************)
EXTENDS Integers, Sequences, FiniteSets, TLC

VARIABLES
    classes,       \* the names of the unit classes declared so far
    registry,      \* the explicit specializations of LookupName: exponent vector -> class name
    instantiated,  \* exponent vectors whose primary LookupName was implicitly instantiated
    pcDecl,        \* index of the next declaration of the headers
    diag,          \* diagnostic of the last construct ("" when it was accepted)
    ty,            \* the type the user code currently names
    tlast,         \* the last type-level construct: operator, operand types, result
    x,             \* the quantity the running program currently holds
    last,          \* the last operation applied at run time
    prev,          \* the operation applied before last
    units          \* the unit constants user code declared: suffix -> constant

vars ==
    <<classes, registry, instantiated, pcDecl, diag, ty, tlast, x, last, prev, units>>

(***************************************************************************)
(* Bounds                                                                  *)
(***************************************************************************)
MaxExp == 2      \* largest sum of |numerator| over the exponent slots a type may reach
MaxDen == 2      \* largest denominator of an exponent slot a type may reach

(***************************************************************************)
(* std::ratio                                                              *)
(***************************************************************************)
Abs(n) == IF n < 0 THEN -n ELSE n

Sgn(n) == IF n < 0 THEN -1 ELSE IF n > 0 THEN 1 ELSE 0

RECURSIVE GCD(_, _)
GCD(a, b) == IF b = 0 THEN a ELSE GCD(b, a % b)

\* std::ratio<N, D>: the template arguments as written
ratio(N, D) == <<N, D>>

\* std::ratio<N, D>::num and ::den: sign carried by num, both divided by the gcd
num(R) ==
    LET N == R[1]
        D == R[2]
    IN  Sgn(N) * Sgn(D) * (Abs(N) \div GCD(Abs(N), Abs(D)))

den(R) ==
    LET N == R[1]
        D == R[2]
    IN  Abs(D) \div GCD(Abs(N), Abs(D))

\* a ratio whose ::type is the ratio as written, numerator and denominator
\* left undivided
ratio_as_written(R) == R

\* the member typedef ratio<N, D>::type == ratio<num, den>
ratio_type(R) == ratio(num(R), den(R))

ratio_add(R1, R2) ==
    LET n1 == num(R1)
        d1 == den(R1)
        n2 == num(R2)
        d2 == den(R2)
        r  == ratio(n1 * d2 + n2 * d1, d1 * d2)
    IN  ratio_type(r)

ratio_subtract(R1, R2) ==
    LET n1 == num(R1)
        d1 == den(R1)
        n2 == num(R2)
        d2 == den(R2)
        r  == ratio(n1 * d2 - n2 * d1, d1 * d2)
    IN  ratio_type(r)

ratio_multiply(R1, R2) ==
    LET r == ratio(num(R1) * num(R2), den(R1) * den(R2))
    IN  ratio_type(r)

\* static_assert(R2::num != 0, "division by 0") is the caller's guard
ratio_divide(R1, R2) ==
    ratio_multiply(R1, ratio(den(R2), num(R2)))

ratio_equal(R1, R2) == num(R1) = num(R2) /\ den(R1) = den(R2)

(***************************************************************************)
(* Quantity types.  A type is its class name and its eight ratio template  *)
(* arguments in the order mass, length, time, current, angle, temperature, *)
(* luminosity, moles.                                                      *)
(***************************************************************************)
Slots == 1..8

Quantity(dims) == [name |-> "Quantity", dim |-> dims]

\* ratio<n> for each of the eight integer exponents of a declaration
RatioDims(exps) == [i \in Slots |-> ratio(exps[i], 1)]

\* class Name : public Quantity<ratio<mass>, ..., ratio<mole>>
ClassType(d) == [name |-> d.name, dim |-> RatioDims(d.exps)]

\* A declaration: lookup = it specializes LookupName; ctor = access of the
\* converting constructor from the base Quantity.
Unit(n, e) == [name |-> n, exps |-> e, lookup |-> TRUE, ctor |-> "public"]

\* the declarations of units.hpp, Angle.hpp and Temperature.hpp in source order
Decls == <<
    Unit("Number",              <<0, 0, 0, 0, 0, 0, 0, 0>>),
    Unit("Mass",                <<1, 0, 0, 0, 0, 0, 0, 0>>),
    Unit("Time",                <<0, 0, 1, 0, 0, 0, 0, 0>>),
    Unit("Length",              <<0, 1, 0, 0, 0, 0, 0, 0>>),
    Unit("Area",                <<0, 2, 0, 0, 0, 0, 0, 0>>),
    Unit("LinearVelocity",      <<0, 1, -1, 0, 0, 0, 0, 0>>),
    Unit("LinearAcceleration",  <<0, 1, -2, 0, 0, 0, 0, 0>>),
    Unit("LinearJerk",          <<0, 1, -3, 0, 0, 0, 0, 0>>),
    Unit("Curvature",           <<0, -1, 0, 0, 0, 0, 0, 0>>),
    Unit("Inertia",             <<1, 2, 0, 0, 0, 0, 0, 0>>),
    Unit("Force",               <<1, 1, -2, 0, 0, 0, 0, 0>>),
    Unit("Torque",              <<1, 2, -2, 0, 0, 0, 0, 0>>),
    Unit("Power",               <<1, 2, -3, 0, 0, 0, 0, 0>>),
    Unit("Current",             <<0, 0, 0, 1, 0, 0, 0, 0>>),
    Unit("Charge",              <<0, 0, 1, 1, 0, 0, 0, 0>>),
    Unit("Voltage",             <<1, 2, -3, -1, 0, 0, 0, 0>>),
    Unit("Resistance",          <<1, 2, -3, -2, 0, 0, 0, 0>>),
    Unit("Conductance",         <<-1, -2, 3, 2, 0, 0, 0, 0>>),
    Unit("Luminosity",          <<0, 0, 0, 0, 0, 0, 1, 0>>),
    Unit("Moles",               <<0, 0, 0, 0, 0, 0, 0, 1>>),
    Unit("Angle",               <<0, 0, 0, 0, 1, 0, 0, 0>>),
    [name |-> "CAngle", exps |-> <<0, 0, 0, 0, 1, 0, 0, 0>>,
     lookup |-> FALSE, ctor |-> "private"],
    Unit("AngularVelocity",     <<0, 0, -1, 0, 1, 0, 0, 0>>),
    Unit("AngularAcceleration", <<0, 0, -2, 0, 1, 0, 0, 0>>),
    Unit("AngularJerk",         <<0, 0, -3, 0, 1, 0, 0, 0>>),
    Unit("Temperature",         <<0, 0, 0, 0, 0, 1, 0, 0>>) >>

\* units a user of the headers may go on to declare with NEW_UNIT: one whose
\* exponent vector is Torque's, one whose vector is new, one that reuses a name
UserUnits == {
    Unit("Energy",    <<1, 2, -2, 0, 0, 0, 0, 0>>),
    Unit("AngleTime", <<0, 0, 1, 0, 1, 0, 0, 0>>),
    Unit("Length",    <<0, 0, -1, 0, 0, 0, 0, 0>>) }

\* the keys a later declaration can still specialize
UserDims == {RatioDims(u.exps) : u \in UserUnits}

\* the declaration that defined class n: the headers come first
ClassDecl(n) ==
    IF \E i \in 1..Len(Decls) : Decls[i].name = n
    THEN Decls[CHOOSE i \in 1..Len(Decls) : Decls[i].name = n]
    ELSE CHOOSE u \in UserUnits : u.name = n


(***************************************************************************)
(* LookupName / Named                                                      *)
(***************************************************************************)
\* template <typename Q> struct LookupName { using Named = Q; } and the
\* explicit specializations for Quantity<...> made by the declarations
LookupName(Q) ==
    IF Q.name = "Quantity" /\ Q.dim \in DOMAIN registry
    THEN [name |-> registry[Q.dim], dim |-> Q.dim]
    ELSE Q

\* an alias that never consults the specializations
NamedPrimary(Q) == Q

Named(Q) == LookupName(Q)

(***************************************************************************)
(* Dimensional algebra                                                     *)
(***************************************************************************)
\* a product that hands back the right operand's type when the left operand
\* is dimensionless
MultipliedByNumber(Q1, Q2) ==
    IF \A i \in Slots : num(Q1.dim[i]) = 0
    THEN Q2
    ELSE Named(Quantity([i \in Slots |-> ratio_add(Q1.dim[i], Q2.dim[i])]))

Multiplied(Q1, Q2) ==
    Named(Quantity([i \in Slots |-> ratio_add(Q1.dim[i], Q2.dim[i])]))

Divided(Q1, Q2) ==
    Named(Quantity([i \in Slots |-> ratio_subtract(Q1.dim[i], Q2.dim[i])]))

Exponentiated(Q, R) ==
    Named(Quantity([i \in Slots |-> ratio_multiply(Q.dim[i], R)]))

Rooted(Q, R) ==
    Named(Quantity([i \in Slots |-> ratio_divide(Q.dim[i], R)]))

(***************************************************************************)
(* Isomorphic                                                              *)
(***************************************************************************)
\* Quantity<...> that the type is or publicly derives from
BaseOf(Q) == Quantity(Q.dim)

\* every converting constructor declared public
CtorAccessPublic(To) == "public"

\* access of the constructor To(Quantity<...>) / To(Self const&)
CtorAccess(To) ==
    IF To.name = "Quantity" THEN "public" ELSE ClassDecl(To.name).ctor

\* std::convertible_to<From, To>: copy; derived-to-base; the converting
\* constructor of To from its base Quantity, when accessible; CAngle's
\* conversion function operator Angle()
convertible_to(From, To) ==
    \/ From = To
    \/ /\ To.name = "Quantity"
       /\ BaseOf(From) = To
    \/ /\ To.name # "Quantity"
       /\ BaseOf(From) = BaseOf(To)
       /\ CtorAccess(To) = "public"
    \/ /\ From.name = "CAngle"
       /\ To.name = "Angle"

\* a concept that checks the Quantity shape of both types and nothing else
IsomorphicShapeOnly(Q, R) == Q.name # "bool" /\ R.name # "bool"

\* concept Isomorphic<Q, R>; every type of the model satisfies quantityChecker
Isomorphic(Q, R) == convertible_to(Q, R) /\ convertible_to(R, Q)

(***************************************************************************)
(* Operators that require Isomorphic operands                              *)
(***************************************************************************)
AngleT == [name |-> "Angle", dim |-> RatioDims(<<0, 0, 0, 0, 1, 0, 0, 0>>)]

CAngleT == [name |-> "CAngle", dim |-> RatioDims(<<0, 0, 0, 0, 1, 0, 0, 0>>)]

BoolT == [name |-> "bool", dim |-> <<>>]

\* operator+ .. operator> and units::max, min, clamp: requires Isomorphic
IsoOps == {"+", "-", "==", "!=", "<", "<=", ">", ">=", "max", "min", "clamp"}

\* constexpr bool operator==(Angle lhs, CAngle rhs): each argument is
\* copy-initialized from the operand
AngleCAngleEq(L, R) ==
    /\ {"Angle", "CAngle"} \subseteq classes
    /\ convertible_to(L, AngleT)
    /\ convertible_to(R, CAngleT)

\* return Q(lhs.internal() + rhs.internal()) in the body of operator+ and
\* operator-: the constructor Q(double) has to be accessible there
ConstructsFromDouble(Q) == CtorAccess(Q) = "public"

\* overload resolution of `lhs op rhs` and the instantiation of the chosen
\* operator: the constrained template, and for == and != the non-template
\* operator== above, also with its operands reversed
Accepts(op, L, R) ==
    \/ /\ Isomorphic(L, R)
       /\ op \in {"+", "-"} => ConstructsFromDouble(L)
    \/ /\ op \in {"==", "!="}
       /\ AngleCAngleEq(L, R) \/ AngleCAngleEq(R, L)

\* the operators and functions of IsoOps that accept the operand types
Accepted(L, R) == {op \in IsoOps : Accepts(op, L, R)}

\* operators that return an object of the right operand's type
BinaryTypeOfRight(op, L, R) ==
    IF op \in {"==", "!=", "<", "<=", ">", ">="} THEN BoolT ELSE R

\* the type of an accepted `lhs op rhs`: Q for all but the comparisons
BinaryType(op, L, R) ==
    IF op \in {"==", "!=", "<", "<=", ">", ">="} THEN BoolT ELSE L

(***************************************************************************)
(* Declarations                                                            *)
(***************************************************************************)
NoType == [name |-> "none", dim |-> <<>>]

NoRatio == ratio(1, 1)

Construct(o, l, r, k, a, t) ==
    [op |-> o, lhs |-> l, rhs |-> r, R |-> k, ok |-> a, out |-> t, acc |-> {}]

NoConstruct == Construct("none", NoType, NoType, NoRatio, TRUE, NoType)

\* a compiler that accepts every declaration without a diagnostic
DeclDiagSilent(d) == ""

\* what the compiler says to a declaration: the class is defined first, then
\* the explicit specialization of LookupName
DeclDiag(d) ==
    IF d.name \in classes
    THEN "redefinition of class"
    ELSE IF d.lookup /\ RatioDims(d.exps) \in DOMAIN registry
    THEN "redefinition of LookupName"
    ELSE IF d.lookup /\ RatioDims(d.exps) \in instantiated
    THEN "specialization after instantiation"
    ELSE ""

\* a declaration that defines the class and no specialization
SpecializeNothing(reg, d) == reg

\* template <> struct LookupName<Quantity<...>> { using Named = Name; }
Specialize(reg, d) ==
    IF d.lookup THEN (RatioDims(d.exps) :> d.name) @@ reg ELSE reg

\* NEW_UNIT(Name, ...) or a hand-written class with its LookupName
Declare(d) ==
    /\ diag' = DeclDiag(d)
    /\ tlast' = Construct("declare", ClassType(d), NoType, NoRatio,
                          DeclDiag(d) = "", NoType)
    /\ IF DeclDiag(d) = ""
       THEN /\ classes' = classes \cup {d.name}
            /\ registry' = Specialize(registry, d)
       ELSE UNCHANGED <<classes, registry>>
    /\ UNCHANGED <<instantiated, ty, x, last, prev, units>>

\* the next declaration of the included headers
IncludeDecl ==
    /\ pcDecl <= Len(Decls)
    /\ Declare(Decls[pcDecl])
    /\ pcDecl' = pcDecl + 1

\* user code after the headers declares a unit of its own
UserDecl ==
    /\ pcDecl > Len(Decls)
    /\ \E u \in UserUnits : Declare(u)
    /\ UNCHANGED pcDecl

(***************************************************************************)
(* Type-level constructs of user code                                      *)
(***************************************************************************)
\* the classes user code picks its operand types from
TypeNames == {"Length", "Time", "Angle", "CAngle"}

\* the classes whose base Quantity<...> user code also writes out
RawNames == {"Length", "Angle"}

\* the template arguments R user code passes to Exponentiated / Rooted
Ratios == {ratio(0, 1), ratio(2, 1), ratio(2, 4), ratio(1, -2)}

NamedOperands == {ClassType(ClassDecl(n)) : n \in classes \cap TypeNames}

\* Quantity<ratio<0>, ratio<2, 4>, ratio<0>, ...>: a raw instantiation whose
\* length exponent user code writes unreduced
Unreduced ==
    Quantity([RatioDims(<<0, 0, 0, 0, 0, 0, 0, 0>>) EXCEPT ![2] = ratio(2, 4)])

OperandTypes ==
    NamedOperands
        \cup {BaseOf(t) : t \in {n \in NamedOperands : n.name \in RawNames}}
        \cup {Unreduced}

RECURSIVE Degree(_, _)
Degree(dims, i) == IF i = 0 THEN 0 ELSE Abs(num(dims[i])) + Degree(dims, i - 1)

InBounds(T) ==
    IF T.name \in {"bool", "none"} THEN TRUE
    ELSE /\ Degree(T.dim, 8) <= MaxExp
         /\ \A i \in Slots : den(T.dim[i]) <= MaxDen

\* a lookup that finds no specialization instantiates the primary template
Instantiates(T) == IF T.name = "Quantity" THEN {T.dim} \cap UserDims ELSE {}

TypeStep(c) ==
    /\ pcDecl > Len(Decls)
    /\ InBounds(c.out)
    /\ tlast' = c
    /\ diag' = IF c.ok THEN "" ELSE "no match"
    /\ ty' = IF c.ok /\ c.out # BoolT THEN c.out ELSE ty
    /\ instantiated' = IF c.ok THEN instantiated \cup Instantiates(c.out)
                       ELSE instantiated
    /\ UNCHANGED <<classes, registry, pcDecl, x, last, prev, units>>

\* user code names a declared class or a raw Quantity<...>
NameType ==
    \E t \in OperandTypes :
        TypeStep(Construct("type", t, NoType, NoRatio, TRUE, t))

\* Multiplied<Q1, Q2>, the type of operator*(Q1, Q2)
UseMultiplied ==
    /\ ty # NoType
    /\ \E t \in OperandTypes :
        TypeStep(Construct("Multiplied", ty, t, NoRatio, TRUE, Multiplied(ty, t)))

\* Divided<Q1, Q2>, the type of operator/(Q1, Q2)
UseDivided ==
    /\ ty # NoType
    /\ \E t \in OperandTypes :
        TypeStep(Construct("Divided", ty, t, NoRatio, TRUE, Divided(ty, t)))

\* Exponentiated<Q, R>, the type of units::pow<R>
UseExponentiated ==
    /\ ty # NoType
    /\ \E R \in Ratios :
        TypeStep(Construct("Exponentiated", ty, NoType, R, TRUE, Exponentiated(ty, R)))

\* Rooted<Q, R>, the type of units::root<R>; ratio_divide asserts R::num != 0
UseRooted ==
    /\ ty # NoType
    /\ \E R \in Ratios :
        IF num(R) = 0
        THEN /\ pcDecl > Len(Decls)
             /\ tlast' = Construct("Rooted", ty, NoType, R, FALSE, NoType)
             /\ diag' = "static assertion failed"
             /\ UNCHANGED <<classes, registry, instantiated, pcDecl, ty, x, last,
                            prev, units>>
        ELSE TypeStep(Construct("Rooted", ty, NoType, R, TRUE, Rooted(ty, R)))

\* user code forms lhs op rhs with each operator, and calls each function,
\* that is constrained by Isomorphic
UseBinary ==
    /\ ty # NoType
    /\ \E t \in OperandTypes :
        \E a \in {Accepted(ty, t)} :
            TypeStep([Construct("binary", ty, t, NoRatio, a = IsoOps,
                                IF "+" \in a THEN BinaryType("+", ty, t) ELSE NoType)
                      EXCEPT !.acc = a])

(***************************************************************************)
(* The translation unit                                                    *)
(***************************************************************************)
NoValue == [type |-> NoType, val |-> 0]

NoOperation == [op |-> "none"]

Init ==
    /\ classes = {}
    /\ registry = <<>>
    /\ instantiated = {}
    /\ pcDecl = 1
    /\ diag = ""
    /\ ty = NoType
    /\ tlast = NoConstruct
    /\ x = NoValue
    /\ last = NoOperation
    /\ prev = NoOperation
    /\ units = <<>>

Next ==
    \/ IncludeDecl
    \/ UserDecl
    \/ NameType
    \/ UseMultiplied
    \/ UseDivided
    \/ UseExponentiated
    \/ UseRooted
    \/ UseBinary

Spec == Init /\ [][Next]_vars

(***************************************************************************)
(* Magnitudes                                                              *)
(*                                                                         *)
(* double is modelled by a binary floating-point format of the same design *)
(* with fewer bits: a magnitude is an integer number of quanta, the        *)
(* smallest subnormal; 1.0 is One quanta; round to nearest, ties to even;  *)
(* gradual underflow; overflow to infinity; NaN.  The sign of zero is not  *)
(* kept.                                                                   *)
(***************************************************************************)
Precision == 3   \* bits of the significand
FracBits == 2    \* 1.0 is 2^FracBits quanta
MaxShift == 3    \* the largest finite magnitudes are (2^Precision - 1) * 2^MaxShift
MaxRoot == 3     \* largest n of the pow<n> and root<n> the program calls

One == 2 ^ FracBits

MaxFloat == (2 ^ Precision - 1) * 2 ^ MaxShift

Inf == MaxFloat + 1

NaN == MaxFloat + 2

IsFinite(v) == -MaxFloat <= v /\ v <= MaxFloat

Representable(k) ==
    \E j \in 0..MaxShift : Abs(k) % (2 ^ j) = 0 /\ Abs(k) \div (2 ^ j) < 2 ^ Precision

Floats == {k \in -MaxFloat..MaxFloat : Representable(k)}

\* the double nearest to n / d quanta, for n >= 0 and d > 0
RoundMagnitude(n, d) ==
    IF n >= (2 ^ Precision) * (2 ^ MaxShift) * d THEN Inf
    ELSE LET j == CHOOSE i \in 0..MaxShift : /\ n < (2 ^ Precision) * (2 ^ i) * d
                                             /\ \A h \in 0..(i - 1) :
                                                    n >= (2 ^ Precision) * (2 ^ h) * d
             q == d * 2 ^ j
             m == n \div q
             r == n % q
             up == 2 * r > q \/ (2 * r = q /\ m % 2 = 1)
             v == (IF up THEN m + 1 ELSE m) * 2 ^ j
         IN  IF v > MaxFloat THEN Inf ELSE v

\* the double nearest to n / d quanta, d # 0
Round(n, d) == Sgn(n) * Sgn(d) * RoundMagnitude(Abs(n), Abs(d))

\* lhs * rhs on double
FMul(a, b) ==
    IF a = NaN \/ b = NaN THEN NaN
    ELSE IF ~IsFinite(a) \/ ~IsFinite(b)
    THEN (IF a = 0 \/ b = 0 THEN NaN ELSE Sgn(a) * Sgn(b) * Inf)
    ELSE Round(a * b, One)

\* lhs / rhs on double
FDiv(a, b) ==
    IF a = NaN \/ b = NaN THEN NaN
    ELSE IF ~IsFinite(a) THEN (IF ~IsFinite(b) THEN NaN
                               ELSE Sgn(a) * (IF b < 0 THEN -1 ELSE 1) * Inf)
    ELSE IF ~IsFinite(b) THEN 0
    ELSE IF b = 0 THEN (IF a = 0 THEN NaN ELSE Sgn(a) * Inf)
    ELSE Round(a * One, b)

\* the neighbours of a finite double
Succ(f) == IF f = MaxFloat THEN Inf ELSE CHOOSE g \in Floats :
               g > f /\ \A h \in Floats : h > f => g <= h

Pred(f) == IF f = -MaxFloat THEN -Inf ELSE CHOOSE g \in Floats :
               g < f /\ \A h \in Floats : h < f => g >= h

\* f ^ n for f >= 0, or some number above cap when f ^ n is above cap
RECURSIVE PowCapped(_, _, _)
PowCapped(f, n, cap) ==
    IF n = 0 THEN 1
    ELSE LET p == PowCapped(f, n - 1, cap) IN IF p > cap THEN p ELSE p * f

\* std::pow(x, n) for an integer n >= 1: the power, rounded once
StdPow(v, n) ==
    IF v = NaN THEN NaN
    ELSE IF ~IsFinite(v) THEN (IF v < 0 /\ n % 2 = 1 THEN -Inf ELSE Inf)
    ELSE LET sign == IF v < 0 /\ n % 2 = 1 THEN -1 ELSE 1
             cap == (2 ^ Precision) * (2 ^ MaxShift) * One ^ (n - 1)
         IN  sign * RoundMagnitude(PowCapped(Abs(v), n, cap), One ^ (n - 1))

\* std::pow(x, 1.0 / n) for an integer n >= 1.  The exponent is the double
\* nearest to 1/n.  The language leaves the accuracy of std::pow to the
\* library, so the result is any of the doubles next to the exact power:
\* the two that enclose the n-th root, or, where the root is a double, the
\* root and its neighbour on the side the rounded exponent errs to.
StdPowRoot(v, n) ==
    LET y == FDiv(One, n * One)
        T == v * One ^ (n - 1)
        below == {f \in Floats : f >= 0 /\ PowCapped(f, n, T) <= T}
        above == {f \in Floats : f >= 0 /\ PowCapped(f, n, T) >= T}
        lo == CHOOSE f \in below : \A g \in below : g <= f
        hi == CHOOSE f \in above : \A g \in above : g >= f
    IN  IF v = NaN THEN {NaN}
        ELSE IF y = One THEN {v}
        ELSE IF ~IsFinite(v) THEN {Inf}
        ELSE IF v = 0 THEN {0}
        ELSE IF v < 0 THEN {NaN}
        ELSE IF lo # hi THEN {lo, hi}
        ELSE IF y * n = One \/ v = One THEN {lo}
        ELSE IF (y * n < One) = (v > One) THEN {Pred(lo), lo}
        ELSE {lo, Succ(lo)}

(***************************************************************************)
(* Operators and functions on quantities                                   *)
(***************************************************************************)
Value(t, v) == [type |-> t, val |-> v]

\* operator*(Q1 lhs, Q2 rhs)
OpMulAsDivided(a, b) == Value(Divided(a.type, b.type), FMul(a.val, b.val))

OpMul(a, b) == Value(Multiplied(a.type, b.type), FMul(a.val, b.val))

\* operator/(Q1 lhs, Q2 rhs)
OpDivAsProduct(a, b) == Value(Divided(a.type, b.type), FMul(a.val, b.val))

OpDiv(a, b) == Value(Divided(a.type, b.type), FDiv(a.val, b.val))

\* units::pow<R>(lhs)
pow(R, q) == Value(Exponentiated(q.type, ratio(R, 1)), StdPow(q.val, R))

\* units::root<R>(lhs): the results std::pow can give
rootAsPower(R, q) == {Value(Rooted(q.type, ratio(R, 1)), StdPow(q.val, R))}

root(R, q) == {Value(Rooted(q.type, ratio(R, 1)), v) : v \in StdPowRoot(q.val, R)}

(***************************************************************************)
(* The compiled program                                                    *)
(***************************************************************************)
\* the types of the literals a program starts a computation from
LiteralTypes == {"Length", "CAngle"}

\* the types of the second operands
FactorTypes == {"Length", "Time"}

\* magnitudes of literals: -1.5, 0, 0.25, 1.25, 1.75, 2.0 and 4.0
Magnitudes ==
    {m * (One \div 4) : m \in {-6, 0, 1, 5, 7, 8, 16}}

Literals == {Value(ClassType(ClassDecl(n)), v) : n \in LiteralTypes, v \in Magnitudes}

Factors == {Value(ClassType(ClassDecl(n)), v) : n \in FactorTypes, v \in Magnitudes}

Operation(o, l, r, n, res) == [op |-> o, a |-> l, b |-> r, R |-> n, r |-> res]

\* one operation on the current value; a program chains at most two
\* operations onto a literal
Apply(o, b, n, res) ==
    /\ prev = NoOperation
    /\ x' = res
    /\ last' = Operation(o, x, b, n, res)
    /\ prev' = last
    /\ UNCHANGED <<classes, registry, instantiated, pcDecl, diag, ty, tlast, units>>

\* a literal such as 1.25_m or 1.25_cRad
Literal ==
    /\ \E q \in Literals : x' = q
    /\ last' = NoOperation
    /\ prev' = NoOperation
    /\ UNCHANGED <<classes, registry, instantiated, pcDecl, diag, ty, tlast, units>>

Multiply ==
    /\ x.type # NoType
    /\ \E b \in Factors : Apply("*", b, 1, OpMul(x, b))

Divide ==
    /\ x.type # NoType
    /\ \E b \in Factors : Apply("/", b, 1, OpDiv(x, b))

Power ==
    /\ x.type # NoType
    /\ \E n \in 1..MaxRoot : Apply("pow", NoValue, n, pow(n, x))

Root ==
    /\ x.type # NoType
    /\ \E n \in 1..MaxRoot : \E res \in root(n, x) : Apply("root", NoValue, n, res)

RECURSIVE RegistryAfter(_)
RegistryAfter(n) ==
    IF n = 0 THEN <<>> ELSE Specialize(RegistryAfter(n - 1), Decls[n])

\* the program as compiled from the headers alone
InitRun ==
    /\ classes = {Decls[i].name : i \in 1..Len(Decls)}
    /\ registry = RegistryAfter(Len(Decls))
    /\ instantiated = {}
    /\ pcDecl = Len(Decls) + 1
    /\ diag = ""
    /\ ty = NoType
    /\ tlast = NoConstruct
    /\ x = NoValue
    /\ last = NoOperation
    /\ prev = NoOperation
    /\ units = <<>>

NextRun ==
    \/ Literal
    \/ Multiply
    \/ Divide
    \/ Power
    \/ Root

SpecRun == InitRun /\ [][NextRun]_vars

(***************************************************************************)
(* double with MantDig significant bits. A finite double is m * 2^e with   *)
(* m = 0 and e = 0, or 2^(MantDig-1) <= |m| < 2^MantDig; the sign of zero  *)
(* is not kept. The exponent range of double is not reached by the unit    *)
(* constants and the angles below, so e is not bounded; infinities and NaN *)
(* come from divisions by zero alone.                                      *)
(***************************************************************************)
MantDig == 9

Dbl(m0, e0) == [k |-> "fin", m |-> m0, e |-> e0]

DZero == Dbl(0, 0)

\* +infinity and -infinity
DInf(sign) == [k |-> "inf", m |-> sign, e |-> 0]

DNaN == [k |-> "nan", m |-> 0, e |-> 0]

\* the double nearest to (n / d) * 2^e, ties to the even significand;
\* n >= 0 and d > 0
RECURSIVE RoundNearest(_, _, _)
RoundNearest(n, d, e) ==
    IF n = 0 THEN DZero
    ELSE IF n < 2 ^ (MantDig - 1) * d THEN RoundNearest(2 * n, d, e - 1)
    ELSE IF n >= 2 ^ MantDig * d THEN RoundNearest(n, 2 * d, e + 1)
    ELSE LET q == n \div d
             r == n % d
             up == 2 * r > d \/ (2 * r = d /\ q % 2 = 1)
             m == IF up THEN q + 1 ELSE q
         IN  IF m = 2 ^ MantDig THEN Dbl(2 ^ (MantDig - 1), e + 1) ELSE Dbl(m, e)

DNeg(a) == [a EXCEPT !.m = -a.m]

\* the double nearest to (n / d) * 2^e for any integer n
Fl(n, d, e) ==
    IF n < 0 THEN DNeg(RoundNearest(-n, d, e)) ELSE RoundNearest(n, d, e)

\* the value the compiler gives the decimal literal n / d
Lit(n, d) == Fl(n, d, 0)

\* a * b
DMul(a, b) ==
    IF a.k = "nan" \/ b.k = "nan" THEN DNaN
    ELSE IF a.k = "inf" \/ b.k = "inf"
    THEN (IF a.m = 0 \/ b.m = 0 THEN DNaN ELSE DInf(Sgn(a.m) * Sgn(b.m)))
    ELSE Fl(a.m * b.m, 1, a.e + b.e)

\* a / b
DDiv(a, b) ==
    IF a.k = "nan" \/ b.k = "nan" THEN DNaN
    ELSE IF a.k = "inf"
    THEN (IF b.k = "inf" THEN DNaN ELSE DInf(a.m * (IF b.m < 0 THEN -1 ELSE 1)))
    ELSE IF b.k = "inf" THEN DZero
    ELSE IF b.m = 0 THEN (IF a.m = 0 THEN DNaN ELSE DInf(Sgn(a.m)))
    ELSE Fl(a.m * Sgn(b.m), Abs(b.m), a.e - b.e)

\* a + b
DAdd(a, b) ==
    IF a.k = "nan" \/ b.k = "nan" THEN DNaN
    ELSE IF a.k = "inf" THEN (IF b.k = "inf" /\ b.m # a.m THEN DNaN ELSE a)
    ELSE IF b.k = "inf" THEN b
    ELSE IF a.m = 0 THEN b
    ELSE IF b.m = 0 THEN a
    ELSE IF a.e - b.e > MantDig + 1 THEN a
    ELSE IF b.e - a.e > MantDig + 1 THEN b
    ELSE LET lo == IF a.e < b.e THEN a.e ELSE b.e
         IN  Fl(a.m * 2 ^ (a.e - lo) + b.m * 2 ^ (b.e - lo), 1, lo)

\* a - b
DSub(a, b) == DAdd(a, DNeg(b))

\* a < b
DLess(a, b) ==
    IF a.k = "nan" \/ b.k = "nan" THEN FALSE
    ELSE IF a.k = "inf" THEN a.m < 0 /\ ~(b.k = "inf" /\ b.m < 0)
    ELSE IF b.k = "inf" THEN b.m > 0
    ELSE IF Sgn(a.m) # Sgn(b.m) THEN a.m < b.m
    ELSE IF a.m = 0 THEN FALSE
    ELSE IF a.m > 0 THEN a.e < b.e \/ (a.e = b.e /\ a.m < b.m)
    ELSE a.e > b.e \/ (a.e = b.e /\ a.m < b.m)

\* a == b
DEq(a, b) == a.k # "nan" /\ b.k # "nan" /\ a = b

\* (n * 2^j) mod d without forming n * 2^j
RECURSIVE ShiftMod(_, _, _)
ShiftMod(n, j, d) == IF j = 0 THEN n % d ELSE ShiftMod((2 * (n % d)) % d, j - 1, d)

\* std::fmod(a, b): a - n * b with n the quotient truncated toward zero;
\* the result is exact and has the sign of a
DMod(a, b) ==
    IF a.k = "nan" \/ b.k = "nan" \/ a.k = "inf" THEN DNaN
    ELSE IF b.k = "inf" THEN a
    ELSE IF b.m = 0 THEN DNaN
    ELSE IF a.e >= b.e
    THEN Fl(Sgn(a.m) * ShiftMod(Abs(a.m), a.e - b.e, Abs(b.m)), 1, b.e)
    ELSE IF b.e - a.e > MantDig THEN a
    ELSE Fl(Sgn(a.m) * (Abs(a.m) % (Abs(b.m) * 2 ^ (b.e - a.e))), 1, a.e)

\* the doubles next to a finite double
DSucc(a) ==
    IF a.m = 0 THEN a
    ELSE IF a.m = 2 ^ MantDig - 1 THEN Dbl(2 ^ (MantDig - 1), a.e + 1)
    ELSE IF a.m = -(2 ^ (MantDig - 1)) THEN Dbl(-(2 ^ MantDig - 1), a.e - 1)
    ELSE Dbl(a.m + 1, a.e)

DPred(a) == DNeg(DSucc(DNeg(a)))

(***************************************************************************)
(* Unit constants: NEW_UNIT_LITERAL, NEW_METRIC_PREFIXES, from_ and to_     *)
(***************************************************************************)
\* a scaled declaration that also specializes LookupName for Name's vector
LiteralDefinesLookup == {"constant", "literal", "from", "to", "LookupName"}

\* what the expansion of NEW_UNIT_LITERAL(Name, suffix, multiple) defines:
\* the constant, the two literal operators, from_suffix and to_suffix
LiteralDefines == {"constant", "literal", "from", "to"}

\* constexpr Name suffix = ...: the constant of a unit; of and exp10 keep the
\* base and the decimal exponent of a constant declared with a metric prefix
UnitConstant(T, v, b, d) == [type |-> T, val |-> v, of |-> b, exp10 |-> d]

\* constexpr Name suffix = Name(1.0), for the units the runs below start from
BaseUnits ==
    ("m" :> UnitConstant(ClassType(ClassDecl("Length")), Lit(1, 1), "", 0))
        @@ ("sec" :> UnitConstant(ClassType(ClassDecl("Time")), Lit(1, 1), "", 0))

\* operator*(Q quantity, double multiple) and operator*(double multiple, Q
\* quantity): Q(quantity.internal() * multiple)
TimesScalar(q, c) == Value(q.type, DMul(q.val, c))

\* a scalar quotient that multiplies
OverScalarAsProduct(q, c) == Value(q.type, DMul(q.val, c))

\* operator/(Q quantity, double divisor): Q(quantity.internal() / divisor)
OverScalar(q, c) == Value(q.type, DDiv(q.val, c))

\* operator*(Q1 lhs, Q2 rhs) and operator/(Q1 lhs, Q2 rhs) on doubles
Times(a, b) == Value(Multiplied(a.type, b.type), DMul(a.val, b.val))

Over(a, b) == Value(Divided(a.type, b.type), DDiv(a.val, b.val))

\* operands of the expression given as multiple: a unit constant or a double
U(suffix) == [u |-> suffix]

K(c) == [c |-> c]

IsUnit(o) == "u" \in DOMAIN o

ScaledUnit(n, sfx, op, lhs, rhs) ==
    [name |-> n, suffix |-> sfx, f |-> op, l |-> lhs, r |-> rhs]

\* NEW_UNIT_LITERAL(Time, min, sec * 60), (Length, in, cm * 2.54),
\* (Length, tile, 600 * mm), (LinearVelocity, inps, in / sec), and one that
\* user code gets wrong: NEW_UNIT_LITERAL(Length, span, sec * 60)
ScaledUnits == {
    ScaledUnit("Time", "min", "*", U("sec"), K(Lit(60, 1))),
    ScaledUnit("Length", "in", "*", U("cm"), K(Lit(254, 100))),
    ScaledUnit("Length", "tile", "*", K(Lit(600, 1)), U("mm")),
    ScaledUnit("LinearVelocity", "inps", "/", U("in"), U("sec")),
    ScaledUnit("Length", "span", "*", U("sec"), K(Lit(60, 1))) }

\* the unit constants an expression names
Names(d) == {o.u : o \in {p \in {d.l, d.r} : IsUnit(p)}}

\* the value of the expression given as multiple
Multiple(d) ==
    LET a == IF IsUnit(d.l) THEN units[d.l.u] ELSE NoValue
        b == IF IsUnit(d.r) THEN units[d.r.u] ELSE NoValue
    IN  IF IsUnit(d.l) /\ IsUnit(d.r)
        THEN (IF d.f = "*" THEN Times(a, b) ELSE Over(a, b))
        ELSE IF IsUnit(d.l)
        THEN (IF d.f = "*" THEN TimesScalar(a, d.r.c) ELSE OverScalar(a, d.r.c))
        ELSE TimesScalar(b, d.l.c)

\* the double of the literal 1Ek: 10^k = 5^k * 2^k
E(k) == Fl(5 ^ k, 1, k)

Prefix(p, op, k) == [prefix |-> p, f |-> op, lit |-> k]

\* NEW_METRIC_PREFIXES(Name, base): T##base is base * 1E12, ..., n##base is
\* base / 1E9
MetricPrefixes == <<
    Prefix("T", "*", 12), Prefix("G", "*", 9), Prefix("M", "*", 6),
    Prefix("k", "*", 3), Prefix("c", "/", 2), Prefix("m", "/", 3),
    Prefix("u", "/", 6), Prefix("n", "/", 9) >>

\* NEW_METRIC_PREFIXES(Time, sec) and NEW_METRIC_PREFIXES(Length, m)
PrefixedUnits == {[name |-> "Time", base |-> "sec"], [name |-> "Length", base |-> "m"]}

\* the constant one prefix declares
Prefixed(T, base, p) ==
    LET q == IF p.f = "*" THEN TimesScalar(units[base], E(p.lit))
             ELSE OverScalar(units[base], E(p.lit))
    IN  UnitConstant(T, q.val, base, IF p.f = "*" THEN p.lit ELSE -p.lit)

\* what the compiler says to constexpr Name suffix = multiple
LiteralDiag(sfx, used, T, M) ==
    IF ~(used \subseteq DOMAIN units) THEN "not declared"
    ELSE IF sfx \cap DOMAIN units # {} THEN "redeclaration"
    ELSE IF ~convertible_to(M, T) THEN "no conversion"
    ELSE ""

\* one expansion of a macro that declares scaled units: new is the function
\* from the declared suffixes to their constants
DeclareScaled(macro, T, M, used, new) ==
    LET msg == LiteralDiag(DOMAIN new, used, T, M)
    IN  /\ diag' = msg
        /\ tlast' = Construct(macro, T, M, NoRatio, msg = "", NoType)
        /\ units' = IF msg = "" THEN new @@ units ELSE units
        /\ registry' = IF msg = "" /\ "LookupName" \in LiteralDefines
                       THEN (T.dim :> CHOOSE sfx \in DOMAIN new : TRUE) @@ registry
                       ELSE registry
        /\ instantiated' = IF msg \in {"", "no conversion"}
                           THEN instantiated \cup Instantiates(M)
                           ELSE instantiated
        /\ UNCHANGED <<classes, pcDecl, ty, x, last, prev>>

\* NEW_UNIT_LITERAL(Name, suffix, multiple)
DeclareLiteral ==
    \E d \in ScaledUnits :
        LET T == ClassType(ClassDecl(d.name))
            ok == Names(d) \subseteq DOMAIN units
            M == IF ok THEN Multiple(d) ELSE NoValue
        IN  DeclareScaled("NEW_UNIT_LITERAL", T, M.type, Names(d),
                          IF ok THEN d.suffix :> UnitConstant(T, M.val, "", 0)
                          ELSE d.suffix :> NoValue)

\* NEW_METRIC_PREFIXES(Name, base): the eight declarations
DeclarePrefixes ==
    \E d \in PrefixedUnits :
        LET T == ClassType(ClassDecl(d.name))
            n == Len(MetricPrefixes)
        IN  DeclareScaled("NEW_METRIC_PREFIXES", T, units[d.base].type, {d.base},
                          [sfx \in {MetricPrefixes[i].prefix \o d.base : i \in 1..n} |->
                              Prefixed(T, d.base,
                                       MetricPrefixes[CHOOSE i \in 1..n :
                                           MetricPrefixes[i].prefix \o d.base = sfx])])

\* the units the program converts with
ConvUnits == {"cm", "in", "min", "km"}

\* the doubles the program converts: 1.0, 7.0, 0.9 and -2.5
ConvValues == {Lit(1, 1), Lit(7, 1), Lit(9, 10), Lit(-5, 2)}

\* a conversion that multiplies by the unit constant
convertAsProduct(q, unit) == DMul(q.val, unit.val)

\* Quantity::convert: value / quantity.value
convert(q, unit) == DDiv(q.val, unit.val)

\* from_suffix(double value): value * multiple
From ==
    \E s \in ConvUnits \cap DOMAIN units, v \in ConvValues :
        /\ x' = TimesScalar(Value(units[s].type, units[s].val), v)
        /\ last' = [op |-> "from", unit |-> s, v |-> v]
        /\ prev' = NoOperation
        /\ UNCHANGED <<classes, registry, instantiated, pcDecl, diag, ty, tlast, units>>

\* to_suffix(Name quantity): quantity.convert(multiple)
To ==
    /\ x.type # NoType
    /\ last.op = "from"
    /\ \E s \in ConvUnits \cap DOMAIN units :
        /\ convertible_to(x.type, units[s].type)
        /\ last' = [op |-> "to", unit |-> s, v |-> convert(x, units[s])]
        /\ prev' = last
        /\ UNCHANGED <<classes, registry, instantiated, pcDecl, diag, ty, tlast, x, units>>

\* the translation unit after the NEW_UNIT declarations of the headers
InitUnits ==
    /\ classes = {Decls[i].name : i \in 1..Len(Decls)}
    /\ registry = RegistryAfter(Len(Decls))
    /\ instantiated = {}
    /\ pcDecl = Len(Decls) + 1
    /\ diag = ""
    /\ ty = NoType
    /\ tlast = NoConstruct
    /\ x = NoValue
    /\ last = NoOperation
    /\ prev = NoOperation
    /\ units = BaseUnits

NextUnits ==
    \/ DeclareLiteral
    \/ DeclarePrefixes
    \/ From
    \/ To

SpecUnits == InitUnits /\ [][NextUnits]_vars

(***************************************************************************)
(* The compiled program: sums, scalars, assignment, angles                 *)
(***************************************************************************)
\* the doubles of the constants of <cmath>
M_PI == Lit(355, 113)

M_PI_2 == Lit(355, 226)

M_TWOPI == Lit(710, 113)

\* constexpr Angle deg = Angle(M_PI / 180) and rot = Angle(M_TWOPI)
deg == Value(AngleT, DDiv(M_PI, Lit(180, 1)))

rot == Value(AngleT, M_TWOPI)

LengthT == ClassType(ClassDecl("Length"))

NumberT == ClassType(ClassDecl("Number"))

TimeT == ClassType(ClassDecl("Time"))

\* the types of the objects the program holds
UseTypes ==
    {LengthT, BaseOf(LengthT), NumberT, BaseOf(NumberT), AngleT, BaseOf(AngleT), CAngleT}

\* the numbers the program writes in its literals
DegValues == {-540, -190, -180, -15, 0, 4, 15, 75, 86, 90, 105, 180, 345, 360}

\* the numbers it writes for second operands and scalars
RightValues == {-15, 0, 180}

\* n_m, n_num, Quantity<...>(n); n_stDeg is n * deg and n_cDeg is
\* CAngle(n * deg.internal())
Object(T, n) ==
    IF T \in {AngleT, CAngleT} THEN Value(T, DMul(Lit(n, 1), deg.val))
    ELSE Value(T, Lit(n, 1))

Objects == {Object(T, n) : T \in UseTypes, n \in DegValues}

RightObjects ==
    {Object(T, n) : T \in {LengthT, BaseOf(LengthT), AngleT, CAngleT, TimeT}, n \in RightValues}
        \cup {Object(AngleT, n) : n \in DegValues}

Scalars == {Lit(n, 1) : n \in RightValues} \cup {Lit(5, 2)}

\* an addition that subtracts
OperatorPlusAsMinus(a, b) == Value(BinaryType("+", a.type, b.type), DSub(a.val, b.val))

\* operator+: Q(lhs.internal() + rhs.internal())
OperatorPlus(a, b) == Value(BinaryType("+", a.type, b.type), DAdd(a.val, b.val))

\* operator-: Q(lhs.internal() - rhs.internal())
OperatorMinus(a, b) == Value(BinaryType("-", a.type, b.type), DSub(a.val, b.val))

\* the object a parameter of type P is initialized with from the argument b:
\* CAngle::operator Angle() for a parameter of type Angle, and otherwise a
\* copy of the stored value (of the Quantity base for a parameter of that
\* type)
Received(P, b) ==
    IF b.type = CAngleT /\ P = AngleT THEN Value(AngleT, DSub(M_PI_2, b.val))
    ELSE Value(P, b.val)

\* an assignment operator that every type inherits and that asserts nothing
AssignAcceptedAlways(T) == ""

\* a = 2.0: Quantity::operator=(const double&) is hidden in the derived
\* classes by their own copy assignment, and asserts that all eight
\* exponents are zero
AssignAccepted(T) ==
    IF T.name # "Quantity" THEN "no match"
    ELSE IF \E i \in Slots : ~ratio_equal(T.dim[i], ratio(0, 1))
    THEN "static assertion failed"
    ELSE ""

\* units::mod: Q(std::fmod(lhs.internal(), rhs.internal()))
mod(a, b) == Value(a.type, DMod(a.val, b.val))

\* constrainAngle360(Angle in)
constrainAngle360(in) == mod(in, rot)

\* a constrainAngle180 that only takes the remainder
constrainAngle180AsMod(in) == mod(in, rot)

\* constrainAngle180(Angle in)
constrainAngle180(in) ==
    LET half == TimesScalar(deg, Lit(180, 1))
        in1 == mod(OperatorPlus(in, half), rot)
    IN  IF DLess(in1.val, DZero) THEN OperatorPlus(in1, half)
        ELSE OperatorMinus(in1, half)

\* one evaluated expression: operands a and b, scalar c, result res, whether
\* it compiled, the truth value of a comparison, and the magnitude that was
\* read for a CAngle operand
Use(o, l, r, c, res, acc, truth, u) ==
    [op |-> o, a |-> l, b |-> r, k |-> c, r |-> res, ok |-> acc, t |-> truth,
     used |-> u]

Fresh == last = NoOperation

\* an expression that leaves the object as it is
Evaluate(u) ==
    /\ last' = u
    /\ prev' = last
    /\ diag' = IF u.ok THEN "" ELSE "no match"
    /\ UNCHANGED <<classes, registry, instantiated, pcDecl, ty, tlast, x, units>>

\* an expression whose result the program keeps in place of the object
Update(u, msg) ==
    /\ last' = u
    /\ prev' = last
    /\ diag' = msg
    /\ x' = IF u.ok THEN u.r ELSE x
    /\ UNCHANGED <<classes, registry, instantiated, pcDecl, ty, tlast, units>>

\* the magnitude an operation between a and b reads for the CAngle among
\* them when the parameter types are Pa and Pb
UsedOf(a, Pa, b, Pb) ==
    IF b.type = CAngleT THEN Received(Pb, b).val
    ELSE IF a.type = CAngleT THEN Received(Pa, a).val
    ELSE DZero

\* a fresh object
NewObject ==
    /\ \E q \in Objects : x' = q
    /\ last' = NoOperation
    /\ prev' = NoOperation
    /\ diag' = ""
    /\ UNCHANGED <<classes, registry, instantiated, pcDecl, ty, tlast, units>>

\* x + b
Plus ==
    /\ x.type # NoType /\ Fresh
    /\ \E b \in RightObjects :
        LET acc == Accepts("+", x.type, b.type)
        IN  Evaluate(Use("+", x, b, DZero, IF acc THEN OperatorPlus(x, b) ELSE NoValue,
                         acc, FALSE, UsedOf(x, x.type, b, b.type)))

\* x - b
Minus ==
    /\ x.type # NoType /\ Fresh
    /\ \E b \in RightObjects :
        LET acc == Accepts("-", x.type, b.type)
        IN  Evaluate(Use("-", x, b, DZero, IF acc THEN OperatorMinus(x, b) ELSE NoValue,
                         acc, FALSE, UsedOf(x, x.type, b, b.type)))

\* x += b and x -= b: Quantity::operator+=(Self other), operator-=(Self other)
PlusAssign ==
    /\ x.type # NoType /\ Fresh
    /\ \E b \in RightObjects, o \in {"+=", "-="} :
        LET Self == BaseOf(x.type)
            acc == convertible_to(b.type, Self)
            other == Received(Self, b)
            sum == IF o = "+=" THEN DAdd(x.val, other.val) ELSE DSub(x.val, other.val)
        IN  Update(Use(o, x, b, DZero, Value(x.type, sum), acc, FALSE,
                       UsedOf(x, x.type, b, Self)),
                   IF acc THEN "" ELSE "no match")

\* x < b
LessThan ==
    /\ x.type # NoType /\ Fresh
    /\ \E b \in RightObjects :
        LET acc == Accepts("<", x.type, b.type)
        IN  Evaluate(Use("<", x, b, DZero, NoValue, acc, acc /\ DLess(x.val, b.val),
                         UsedOf(x, x.type, b, b.type)))

\* x == b: the template compares internal(); operator==(Angle lhs, CAngle rhs)
\* is lhs == Angle(rhs)
Equal ==
    /\ x.type # NoType
    /\ last.op \in {"none", "+x", "-x"}
    /\ \E b \in RightObjects :
        LET acc == Accepts("==", x.type, b.type)
            tmpl == Isomorphic(x.type, b.type)
            l == IF tmpl THEN x ELSE Received(AngleT, x)
            r == IF tmpl THEN b ELSE Received(AngleT, b)
        IN  Evaluate(Use("==", x, b, DZero, NoValue, acc, acc /\ DEq(l.val, r.val),
                         UsedOf(x, l.type, b, r.type)))

\* x * b and x / b for a second quantity b
TimesOver ==
    /\ x.type # NoType /\ Fresh
    /\ \E b \in RightObjects, o \in {"*", "/"} :
        Evaluate(Use(o, x, b, DZero, IF o = "*" THEN Times(x, b) ELSE Over(x, b),
                     TRUE, FALSE, UsedOf(x, x.type, b, b.type)))

\* x * k, k * x and x / k for a double k; CAngle has overloads of its own
\* that return CAngle(multiple * quantity.internal()) and
\* CAngle(quantity.internal() / multiple)
Scale ==
    /\ x.type # NoType /\ Fresh
    /\ \E c \in Scalars, o \in {"x*k", "k*x", "x/k"} :
        Evaluate(Use(o, x, NoValue, c,
                     IF o = "x/k" THEN OverScalar(x, c) ELSE TimesScalar(x, c),
                     TRUE, FALSE, DZero))

\* x = k for a double k
Assign ==
    /\ x.type # NoType /\ Fresh
    /\ \E c \in Scalars :
        Update(Use("=", x, NoValue, c, Value(x.type, c), AssignAccepted(x.type) = "",
                   FALSE, DZero),
               AssignAccepted(x.type))

\* +x and -x of a CAngle: CAngle(this->value), CAngle(-this->value)
UnaryPlus ==
    /\ x.type # NoType /\ Fresh
    /\ x.type = CAngleT
    /\ Update(Use("+x", x, NoValue, DZero, x, TRUE, FALSE, DZero), "")

UnaryMinus ==
    /\ x.type # NoType
    /\ last.op \in {"none", "+x"}
    /\ x.type = CAngleT
    /\ Update(Use("-x", x, NoValue, DZero, Value(CAngleT, DNeg(x.val)), TRUE, FALSE, DZero), "")

\* Angle a = x and Quantity<...> q = x
Convert ==
    /\ x.type # NoType /\ Fresh
    /\ \E P \in {AngleT, BaseOf(x.type)} :
        LET acc == convertible_to(x.type, P)
        IN  Evaluate(Use(P.name, x, NoValue, DZero, IF acc THEN Received(P, x) ELSE NoValue,
                         acc, FALSE, UsedOf(x, P, NoValue, NoType)))

\* units::constrainAngle360(x) and units::constrainAngle180(x)
Constrain ==
    /\ x.type # NoType /\ Fresh
    /\ \E f \in {"constrainAngle360", "constrainAngle180"} :
        LET acc == convertible_to(x.type, AngleT)
            in == Received(AngleT, x)
        IN  Evaluate(Use(f, x, NoValue, DZero,
                         IF ~acc THEN NoValue
                         ELSE IF f = "constrainAngle360" THEN constrainAngle360(in)
                         ELSE constrainAngle180(in),
                         acc, FALSE, UsedOf(x, AngleT, NoValue, NoType)))

InitUse ==
    /\ classes = {Decls[i].name : i \in 1..Len(Decls)}
    /\ registry = RegistryAfter(Len(Decls))
    /\ instantiated = {}
    /\ pcDecl = Len(Decls) + 1
    /\ diag = ""
    /\ ty = NoType
    /\ tlast = NoConstruct
    /\ x = NoValue
    /\ last = NoOperation
    /\ prev = NoOperation
    /\ units = <<>>

NextUse ==
    \/ NewObject
    \/ Plus
    \/ Minus
    \/ PlusAssign
    \/ LessThan
    \/ Equal
    \/ TimesOver
    \/ Scale
    \/ Assign
    \/ UnaryPlus
    \/ UnaryMinus
    \/ Convert
    \/ Constrain

SpecUse == InitUse /\ [][NextUse]_vars

(***************************************************************************)
(* Conversions: temperatures, angles, linear and angular, rounding         *)
(***************************************************************************)
TemperatureT == ClassType(ClassDecl("Temperature"))

\* operator""_kelvin, _celsius, _fahrenheit, each for long double and for
\* unsigned long long with the same expression
literal_temperature(u, v) ==
    CASE u = "kelvin" -> Value(TemperatureT, v)
      [] u = "celsius" -> Value(TemperatureT, DAdd(v, Lit(27315, 100)))
      [] u = "fahrenheit" ->
            Value(TemperatureT,
                  DAdd(DMul(DSub(v, Lit(32, 1)), DDiv(Lit(5, 1), Lit(9, 1))), Lit(2735, 10)))

\* to_ functions that apply no offset
to_temperatureNoOffset(u, q) ==
    CASE u = "kelvin" -> q.val
      [] u = "celsius" -> q.val
      [] u = "fahrenheit" -> DMul(q.val, DDiv(Lit(9, 1), Lit(5, 1)))

\* units::from_kelvin, from_celsius, from_fahrenheit
from_temperature(u, v) ==
    CASE u = "kelvin" -> Value(TemperatureT, v)
      [] u = "celsius" -> Value(TemperatureT, DAdd(v, Lit(27315, 100)))
      [] u = "fahrenheit" ->
            Value(TemperatureT,
                  DAdd(DMul(DSub(v, Lit(32, 1)), DDiv(Lit(5, 1), Lit(9, 1))), Lit(27315, 100)))

\* units::to_kelvin, to_celsius, to_fahrenheit
to_temperature(u, q) ==
    CASE u = "kelvin" -> q.val
      [] u = "celsius" -> DSub(q.val, Lit(27315, 100))
      [] u = "fahrenheit" ->
            DAdd(DMul(DSub(q.val, Lit(27315, 100)), DDiv(Lit(9, 1), Lit(5, 1))), Lit(32, 1))

\* operator""_stRad, _stDeg, _stRot, _cRad, _cDeg, _cRot
literal_angle(u, v) ==
    CASE u = "stRad" -> Value(AngleT, v)
      [] u = "stDeg" -> TimesScalar(deg, v)
      [] u = "stRot" -> TimesScalar(rot, v)
      [] u = "cRad" -> Value(CAngleT, v)
      [] u = "cDeg" -> Value(CAngleT, DMul(v, deg.val))
      [] u = "cRot" -> Value(CAngleT, DMul(v, rot.val))

\* from_stRad, from_stDeg, from_stRot, from_cRad, from_cDeg, from_cRot
from_angle(u, v) ==
    CASE u = "stRad" -> Value(AngleT, v)
      [] u = "stDeg" -> TimesScalar(deg, v)
      [] u = "stRot" -> TimesScalar(rot, v)
      [] u = "cRad" -> OperatorMinus(TimesScalar(deg, Lit(90, 1)), Value(AngleT, v))
      [] u = "cDeg" -> TimesScalar(deg, DSub(Lit(90, 1), v))
      [] u = "cRot" -> TimesScalar(deg, DSub(Lit(90, 1), v))

\* to_stRad, to_stDeg, to_stRot, to_cRad, to_cDeg, to_cRot
to_angle(u, q) ==
    CASE u = "stRad" -> q.val
      [] u = "stDeg" -> convert(q, deg)
      [] u = "stRot" -> convert(q, rot)
      [] u = "cRad" -> q.val
      [] u = "cDeg" -> convert(OperatorMinus(TimesScalar(deg, Lit(90, 1)), q), deg)
      [] u = "cRot" -> convert(OperatorMinus(TimesScalar(deg, Lit(90, 1)), q), rot)

TemperatureUnits == {"kelvin", "celsius", "fahrenheit"}

StandardUnits == {"stRad", "stDeg", "stRot"}

CompassUnits == {"cRad", "cDeg", "cRot"}

\* the numbers the program converts
ConvInputs ==
    {Lit(0, 1), Lit(1, 10), Lit(1, 4), Lit(1, 1), Lit(4, 1), Lit(15, 1), Lit(32, 1),
     Lit(-40, 1), Lit(100, 1), Lit(212, 1)}

\* from_m(value) is value * m, operator""_m(value) is Length(value)
from_(u, v) ==
    IF u \in TemperatureUnits THEN from_temperature(u, v)
    ELSE IF u = "m" THEN TimesScalar(Value(LengthT, Lit(1, 1)), v)
    ELSE from_angle(u, v)

literal(u, v) ==
    IF u \in TemperatureUnits THEN literal_temperature(u, v)
    ELSE IF u = "m" THEN Value(LengthT, v)
    ELSE literal_angle(u, v)

\* the to_ functions take a Temperature, an Angle or a Length by value
to_(u, q) ==
    IF u \in TemperatureUnits THEN to_temperature(u, Received(TemperatureT, q))
    ELSE IF u = "m" THEN convert(Received(LengthT, q), Value(LengthT, Lit(1, 1)))
    ELSE to_angle(u, Received(AngleT, q))

\* the units whose to_ function accepts an object of type T
UnitsOf(T) ==
    IF convertible_to(T, TemperatureT) THEN TemperatureUnits
    ELSE IF convertible_to(T, AngleT) THEN StandardUnits \cup CompassUnits
    ELSE IF convertible_to(T, LengthT) THEN {"m"}
    ELSE {}

Conversion(o, name, in, out) == [op |-> o, unit |-> name, v |-> in, r |-> out]

\* the program's first statement: x = from_u(v)  or  x = v_u
FromValue ==
    /\ x.type = NoType
    /\ \E u \in TemperatureUnits \cup StandardUnits \cup CompassUnits \cup {"m"},
          v \in ConvInputs, o \in {"from", "literal"} :
        /\ x' = IF o = "from" THEN from_(u, v) ELSE literal(u, v)
        /\ last' = Conversion(o, u, v, x')
    /\ prev' = NoOperation
    /\ diag' = ""
    /\ UNCHANGED <<classes, registry, instantiated, pcDecl, ty, tlast, units>>

\* to_u(x)
ToValue ==
    /\ x.type # NoType
    /\ last.op \in {"from", "literal"}
    /\ \E u \in UnitsOf(x.type) : last' = Conversion("to", u, to_(u, x), x)
    /\ prev' = last
    /\ diag' = ""
    /\ UNCHANGED <<classes, registry, instantiated, pcDecl, ty, tlast, x, units>>

\* Quantity<mass, angle, time, current, length, temperature, luminosity,
\* moles> of Q: the length and the angle exponent change places
Swapped(Q) ==
    Quantity([i \in Slots |-> IF i = 2 THEN Q.dim[5] ELSE IF i = 5 THEN Q.dim[2] ELSE Q.dim[i]])

\* a toLinear that multiplies by the diameter
toLinearByDiameter(Q, angular, diameter) ==
    Value(Swapped(Q), DMul(angular.val, diameter.val))

\* toLinear<Q>(angular, diameter): unit_cast<...>(angular * (diameter / 2.0))
toLinear(Q, angular, diameter) ==
    Value(Swapped(Q), Times(angular, OverScalar(diameter, Lit(2, 1))).val)

\* toAngular<Q>(linear, diameter): unit_cast<...>(linear / (diameter / 2.0))
toAngular(Q, linear, diameter) ==
    Value(Swapped(Q), Over(linear, OverScalar(diameter, Lit(2, 1))).val)

\* the diameters the program passes
Diameters == {Value(LengthT, c) : c \in {Lit(0, 1), Lit(1, 50), Lit(3, 1), Lit(29, 10)}}

\* x = toLinear<Q>(x, d) and x = toAngular<Q>(x, d); the argument has to
\* convert to Quantity<...> of Q
Linear ==
    /\ x.type # NoType
    /\ \/ last.op \in {"from", "literal"} /\ last.unit \in {"m", "stRad", "stDeg"}
       \/ last.op \in {"toLinear", "toAngular"} /\ prev.op \in {"from", "literal"}
    /\ \E f \in {"toLinear", "toAngular"}, Q \in {LengthT, AngleT}, d \in Diameters :
        LET acc == convertible_to(x.type, BaseOf(Q))
            res == IF f = "toLinear" THEN toLinear(Q, x, d) ELSE toAngular(Q, x, d)
        IN  /\ x' = IF acc THEN res ELSE x
            /\ last' = [op |-> f, Q |-> Q, a |-> x, d |-> d, r |-> x', ok |-> acc]
            /\ diag' = IF acc THEN "" ELSE "no match"
    /\ prev' = last
    /\ UNCHANGED <<classes, registry, instantiated, pcDecl, ty, tlast, units>>

\* std::ceil, std::floor, std::trunc and std::round of a double
StdIntegral(f, a) ==
    IF a.k # "fin" \/ a.e >= 0 THEN a
    ELSE IF -a.e > MantDig + 1
    THEN Lit(CASE f = "floor" -> (IF a.m < 0 THEN -1 ELSE 0)
               [] f = "ceil" -> (IF a.m > 0 THEN 1 ELSE 0)
               [] OTHER -> 0, 1)
    ELSE LET d == 2 ^ (-a.e)
             q == a.m \div d
             r == a.m % d
             qm == Abs(a.m) \div d
             rm == Abs(a.m) % d
         IN  Lit(CASE f = "floor" -> q
                   [] f = "ceil" -> (IF r = 0 THEN q ELSE q + 1)
                   [] f = "trunc" -> Sgn(a.m) * qm
                   [] f = "round" -> Sgn(a.m) * (IF 2 * rm >= d THEN qm + 1 ELSE qm), 1)

\* a rounding that returns the whole number itself
roundedCount(f, lhs, rhs) == Value(lhs.type, StdIntegral(f, DDiv(lhs.val, rhs.val)))

\* units::ceil, floor, trunc, round:
\* Q(std::f(lhs.internal() / rhs.internal()) * rhs.internal())
rounded(f, lhs, rhs) ==
    Value(lhs.type, DMul(StdIntegral(f, DDiv(lhs.val, rhs.val)), rhs.val))

\* the steps the program rounds to
Steps ==
    {Value(T, c) : T \in {LengthT, BaseOf(LengthT), TimeT},
                   c \in {Lit(1, 1), Lit(1, 10), Lit(3, 10), Lit(8, 10), Lit(5, 2)}}

\* units::f(x, b)
RoundTo ==
    /\ x.type # NoType
    /\ last.op \in {"from", "literal"} /\ last.unit = "m"
    /\ \E f \in {"ceil", "floor", "trunc", "round"}, b \in Steps :
        LET acc == Isomorphic(x.type, b.type)
        IN  /\ last' = [op |-> f, a |-> x, b |-> b, ok |-> acc,
                        r |-> IF acc THEN rounded(f, x, b) ELSE NoValue]
            /\ diag' = IF acc THEN "" ELSE "no match"
    /\ prev' = last
    /\ UNCHANGED <<classes, registry, instantiated, pcDecl, ty, tlast, x, units>>

NextConv ==
    \/ FromValue
    \/ ToValue
    \/ Linear
    \/ RoundTo

SpecConv == InitUse /\ [][NextConv]_vars

(***************************************************************************)
(* Objects: printing, Vector<N, T>, AbstractPose<derivatives>.  The        *)
(* program builds one object and applies operations to it.                 *)
(***************************************************************************)
\* static constinit std::array<const char*, 8> prefixes
prefixes == <<"_kg", "_m", "_s", "_A", "_rad", "_K", "_cd", "_mol">>

\* the suffix NEW_UNIT(Name, suffix, ...) was given
SuffixOf(name) ==
    CASE name = "Number" -> "num"
      [] name = "Time" -> "sec"
      [] name = "Length" -> "m"
      [] name = "Area" -> "m2"
      [] name = "LinearVelocity" -> "mps"
      [] name = "Angle" -> "rad"

\* what a stream received: the double written first, then the characters
Stream(d, s) == [mag |-> d, text |-> s]

\* a helper that writes '^' and the numerator for every nonzero exponent
RECURSIVE unit_printer_helperAlwaysPower(_, _, _)
unit_printer_helperAlwaysPower(os, dims, i) ==
    IF i > 8 THEN os
    ELSE LET first == num(dims[i])
             second == den(dims[i])
             s1 == IF first # 0 THEN <<prefixes[i], "^", ToString(first)>> ELSE <<>>
             s2 == IF first # 0 /\ second # 1 THEN <<"/", ToString(second)>> ELSE <<>>
         IN  unit_printer_helperAlwaysPower(Stream(os.mag, os.text \o s1 \o s2), dims, i + 1)

\* unit_printer_helper(os, quantity, dims), from slot i on; os already holds
\* the magnitude
RECURSIVE unit_printer_helper(_, _, _)
unit_printer_helper(os, dims, i) ==
    IF i > 8 THEN os
    ELSE LET first == num(dims[i])
             second == den(dims[i])
             s1 == IF first # 0 THEN <<prefixes[i]>> ELSE <<>>
             s2 == IF first # 0 /\ (first # 1 \/ second # 1)
                   THEN <<"^", ToString(first)>> ELSE <<>>
             s3 == IF first # 0 /\ second # 1 THEN <<"/", ToString(second)>> ELSE <<>>
         IN  unit_printer_helper(Stream(os.mag, os.text \o s1 \o s2 \o s3), dims, i + 1)

\* os << quantity: the operator<< of the class NEW_UNIT declared, for a
\* quantity of that class or of a Quantity<...> that Named maps to it, and
\* unit_printer_helper otherwise
operator_shift(quantity) ==
    LET Q == quantity.type
    IN  IF Named(Q).name # "Quantity"
        THEN Stream(quantity.val, <<" ", SuffixOf(Named(Q).name)>>)
        ELSE unit_printer_helper(Stream(quantity.val, <<>>), Q.dim, 1)

\* the exponent vectors of the quantities the program prints:
\* m^2 s^-1, kg m^1/2 mol^-3/2, m s, kg^1/2, rad K^-1 cd, and those of
\* Length, Number and LinearVelocity
StreamedDims == {
    <<ratio(0, 1), ratio(2, 1), ratio(-1, 1), ratio(0, 1), ratio(0, 1), ratio(0, 1), ratio(0, 1), ratio(0, 1)>>,
    <<ratio(1, 1), ratio(1, 2), ratio(0, 1), ratio(0, 1), ratio(0, 1), ratio(0, 1), ratio(0, 1), ratio(-3, 2)>>,
    <<ratio(0, 1), ratio(1, 1), ratio(1, 1), ratio(0, 1), ratio(0, 1), ratio(0, 1), ratio(0, 1), ratio(0, 1)>>,
    <<ratio(2, 4), ratio(0, 1), ratio(0, 1), ratio(0, 1), ratio(0, 1), ratio(0, 1), ratio(0, 1), ratio(0, 1)>>,
    <<ratio(0, 1), ratio(0, 1), ratio(0, 1), ratio(0, 1), ratio(1, 1), ratio(-1, 1), ratio(1, 1), ratio(0, 1)>>,
    LengthT.dim, NumberT.dim, ClassType(ClassDecl("LinearVelocity")).dim }

StreamedTypes == {Quantity(d) : d \in StreamedDims} \cup {LengthT, AngleT}

\* the magnitudes of the objects the program builds
ObjectValues == {Lit(0, 1), Lit(1, 1), Lit(2, 1), Lit(5, 1), Lit(7, 1), Lit(-3, 1), Lit(5, 2)}

\* the program's first statement: Q x(v)
NewQuantity ==
    /\ x.type = NoType
    /\ \E Q \in StreamedTypes, v \in ObjectValues : x' = Value(Q, v)
    /\ last' = [op |-> "new"]
    /\ prev' = NoOperation
    /\ diag' = ""
    /\ UNCHANGED <<classes, registry, instantiated, pcDecl, ty, tlast, units>>

\* std::cout << x
StreamOut ==
    /\ x.type.name \in {"Quantity", "Length", "Angle"}
    /\ last.op = "new"
    /\ last' = [op |-> "<<", a |-> x, out |-> operator_shift(x)]
    /\ prev' = last
    /\ diag' = ""
    /\ UNCHANGED <<classes, registry, instantiated, pcDecl, ty, tlast, x, units>>

\* Vector<N, T>: std::array<T, N> vec
VectorT(N, T) == [name |-> "Vector", dim |-> T.dim, size |-> N, of |-> T.name]

Vector(N, T, vec) == [type |-> VectorT(N, T), val |-> vec]

\* Quantity::operator+=(Self other) and operator-=(Self other) on one
\* component: value += other.value
ComponentCompound(o, c, other) ==
    Value(c.type, IF o = "+=" THEN DAdd(c.val, other.val) ELSE DSub(c.val, other.val))

\* Vector::operator+=(Vector& other) and operator-=(Vector& other): the
\* receiver and the argument as the call leaves them
VectorCompoundAssign(o, this, other) ==
    [this |-> [this EXCEPT !.val = [i \in 1..Len(this.val) |->
                                       ComponentCompound(o, this.val[i], other.val[i])]],
     other |-> other]

\* Vector::operator+(Vector& other): Vector<N, T>(other) += *this; the
\* result, the receiver and the argument as the call leaves them
VectorPlus(this, other) ==
    LET call == VectorCompoundAssign("+=", other, this)
    IN  [r |-> call.this, this |-> call.other, other |-> other]

\* Vector::operator-(Vector& other): Vector<N, T>(other) += *this
VectorMinus(this, other) ==
    LET call == VectorCompoundAssign("+=", other, this)
    IN  [r |-> call.this, this |-> call.other, other |-> other]

\* the sizes the constructors Vector(T), Vector(T, T), Vector(T, T, T) build
Sizes == {1, 2, 3}

\* the components the program writes
VectorValues == {Lit(0, 1), Lit(2, 1), Lit(5, 1)}

Vectors(N) == {Vector(N, LengthT, v) : v \in [1..N -> {Value(LengthT, c) : c \in VectorValues}]}

\* the program's first statement: Vector<N, Length> x(...)
NewVector ==
    /\ x.type = NoType
    /\ \E N \in Sizes : \E v \in Vectors(N) : x' = v
    /\ last' = [op |-> "new"]
    /\ prev' = NoOperation
    /\ diag' = ""
    /\ UNCHANGED <<classes, registry, instantiated, pcDecl, ty, tlast, units>>

\* x + other and x - other
VectorBinary ==
    /\ x.type.name = "Vector"
    /\ last.op = "new"
    /\ \E o \in {"+", "-"}, other \in Vectors(x.type.size) :
        LET call == IF o = "+" THEN VectorPlus(x, other) ELSE VectorMinus(x, other)
        IN  /\ x' = call.this
            /\ last' = [op |-> o, a |-> x, b |-> other, r |-> call.r, b1 |-> call.other]
    /\ prev' = last
    /\ diag' = ""
    /\ UNCHANGED <<classes, registry, instantiated, pcDecl, ty, tlast, units>>

\* x += other and x -= other
VectorCompound ==
    /\ x.type.name = "Vector"
    /\ last.op = "new"
    /\ \E o \in {"+=", "-="}, other \in Vectors(x.type.size) :
        LET call == VectorCompoundAssign(o, x, other)
        IN  /\ x' = call.this
            /\ last' = [op |-> o, a |-> x, b |-> other, r |-> call.this, b1 |-> call.other]
    /\ prev' = last
    /\ diag' = ""
    /\ UNCHANGED <<classes, registry, instantiated, pcDecl, ty, tlast, units>>

\* a component type that multiplies by the power of Time
PoseComponentTimes(Q, derivatives) == Multiplied(Q, Exponentiated(TimeT, derivatives))

\* Divided<Q, Exponentiated<Time, derivatives>>: Len for Q = Length, the
\* type of orientation for Q = Angle
PoseComponent(Q, derivatives) == Divided(Q, Exponentiated(TimeT, derivatives))

\* AbstractPose<derivatives>
AbstractPoseT(derivatives) ==
    [name |-> "AbstractPose", dim |-> PoseComponent(LengthT, derivatives).dim,
     derivatives |-> derivatives]

\* AbstractPose(Len x, Len y, orientation): Vector(x, y), orientation(orientation)
AbstractPose(derivatives, nx, ny, orientation) ==
    [type |-> AbstractPoseT(derivatives),
     val |-> [x |-> Received(PoseComponent(LengthT, derivatives), nx),
              y |-> Received(PoseComponent(LengthT, derivatives), ny),
              orientation |-> Received(PoseComponent(AngleT, derivatives), orientation)]]

\* using Pose = AbstractPose<std::ratio<0>>, VelocityPose = <1>, AccelerationPose = <2>
Derivatives == {ratio(0, 1), ratio(1, 1), ratio(2, 1)}

\* the quantities the program passes for an orientation of type Q: of the
\* type itself, of its Quantity<...>, and for an Angle a compass literal
OrientationArguments(Q) ==
    {Value(Q, Lit(1, 1)), Value(Q, Lit(2, 1)), Value(BaseOf(Q), Lit(1, 1))}
        \cup (IF Q = AngleT THEN {Object(CAngleT, 15)} ELSE {})

\* the program's first statement: AbstractPose<derivatives> x(nx, ny) or
\* x(nx, ny, orientation)
NewPose ==
    /\ x.type = NoType
    /\ \E d \in Derivatives :
        LET Len_ == PoseComponent(LengthT, d)
            Ori == PoseComponent(AngleT, d)
        IN  \E nx \in {Value(Len_, Lit(1, 1))}, ny \in {Value(Len_, Lit(2, 1))},
               o \in {Value(Ori, DZero), Value(Ori, Lit(1, 1))} :
                x' = AbstractPose(d, nx, ny, o)
    /\ last' = [op |-> "new"]
    /\ prev' = NoOperation
    /\ diag' = ""
    /\ UNCHANGED <<classes, registry, instantiated, pcDecl, ty, tlast, units>>

\* at most two operations follow the construction of a pose
PoseReady ==
    /\ x.type.name = "AbstractPose"
    /\ \/ last.op = "new"
       \/ prev.op = "new"

\* a getter that hands out the member itself
getOrientationByReference(o, pose, q) ==
    LET ori == ComponentCompound(o, pose.val.orientation, Received(BaseOf(pose.val.orientation.type), q))
    IN  [this |-> [pose EXCEPT !.val.orientation = ori], r |-> ori, other |-> q]

\* pose.getOrientation() += q and pose.getOrientation() -= q:
\* getOrientation() returns orientation by value, and
\* Quantity::operator+=(Self other) takes q by value
getOrientationCompound(o, pose, q) ==
    LET ori == ComponentCompound(o, pose.val.orientation, Received(BaseOf(pose.val.orientation.type), q))
    IN  [this |-> pose, r |-> ori, other |-> q]

\* q += pose.getOrientation() and q -= pose.getOrientation()
CompoundGetOrientation(o, q, pose) ==
    [this |-> pose, r |-> ComponentCompound(o, q, Received(BaseOf(q.type), pose.val.orientation)),
     other |-> pose.val.orientation]

\* void setOrientation(orientation): this->orientation = orientation
setOrientation(pose, orientation) ==
    [pose EXCEPT !.val.orientation = Received(pose.val.orientation.type, orientation)]

\* Vector2D::operator+=(Vector2D<T>& other): x += other.getX(); y += other.getY()
Vector2DPlusAssign(pose, other) ==
    [pose EXCEPT !.val.x = ComponentCompound("+=", pose.val.x, other.val[1]),
                 !.val.y = ComponentCompound("+=", pose.val.y, other.val[2])]

\* Vector2D::operator*=(double factor): x *= factor; y *= factor
Vector2DTimesAssign(pose, factor) ==
    [pose EXCEPT !.val.x = Value(pose.val.x.type, DMul(pose.val.x.val, factor)),
                 !.val.y = Value(pose.val.y.type, DMul(pose.val.y.val, factor))]

\* x.setOrientation(q)
SetOrientation ==
    /\ PoseReady
    /\ \E q \in OrientationArguments(x.val.orientation.type) :
        /\ x' = setOrientation(x, q)
        /\ last' = [op |-> "setOrientation", a |-> x, b |-> q, r |-> x', b1 |-> q]
    /\ prev' = last
    /\ diag' = ""
    /\ UNCHANGED <<classes, registry, instantiated, pcDecl, ty, tlast, units>>

\* x.getOrientation() += q, x.getOrientation() -= q
GetOrientationCompound ==
    /\ PoseReady
    /\ \E o \in {"+=", "-="}, q \in OrientationArguments(x.val.orientation.type) :
        LET call == getOrientationCompound(o, x, q)
        IN  /\ x' = call.this
            /\ last' = [op |-> "getOrientation" \o o, a |-> x, b |-> q, r |-> call.r,
                        b1 |-> call.other]
    /\ prev' = last
    /\ diag' = ""
    /\ UNCHANGED <<classes, registry, instantiated, pcDecl, ty, tlast, units>>

\* q += x.getOrientation(), q -= x.getOrientation()
CompoundWithOrientation ==
    /\ PoseReady
    /\ \E o \in {"+=", "-="}, q \in OrientationArguments(x.val.orientation.type) :
        LET call == CompoundGetOrientation(o, q, x)
        IN  /\ q.type # CAngleT
            /\ x' = call.this
            /\ last' = [op |-> o \o "getOrientation", a |-> x, l |-> q,
                        b |-> x.val.orientation, r |-> call.r, b1 |-> call.other]
    /\ prev' = last
    /\ diag' = ""
    /\ UNCHANGED <<classes, registry, instantiated, pcDecl, ty, tlast, units>>

\* x += v and x *= factor of the Vector2D base
PoseVector ==
    /\ PoseReady
    /\ \/ \E v \in {<<Value(x.val.x.type, Lit(2, 1)), Value(x.val.y.type, Lit(5, 1))>>} :
            /\ x' = Vector2DPlusAssign(x, [val |-> v])
            /\ last' = [op |-> "+=", a |-> x, b |-> [val |-> v], r |-> x', b1 |-> [val |-> v]]
       \/ \E factor \in {Lit(2, 1), Lit(1, 2)} :
            /\ x' = Vector2DTimesAssign(x, factor)
            /\ last' = [op |-> "*=", a |-> x, b |-> factor, r |-> x', b1 |-> factor]
    /\ prev' = last
    /\ diag' = ""
    /\ UNCHANGED <<classes, registry, instantiated, pcDecl, ty, tlast, units>>

NextObjects ==
    \/ NewQuantity
    \/ StreamOut
    \/ NewVector
    \/ VectorBinary
    \/ VectorCompound
    \/ NewPose
    \/ SetOrientation
    \/ GetOrientationCompound
    \/ CompoundWithOrientation
    \/ PoseVector

SpecObjects == InitUse /\ [][NextObjects]_vars

(***************************************************************************)
(* Properties of the translation unit                                      *)
(***************************************************************************)
\* the two types have the same exponent in every slot, as rational numbers
SameVector(A, B) ==
    \A i \in Slots : A.dim[i][1] * B.dim[i][2] = B.dim[i][1] * A.dim[i][2]

\* the two types name the same std::ratio instantiation in every slot
SameSlots(A, B) == A.dim = B.dim

\* N / D is in lowest terms with a positive denominator
LowestTerms(R) ==
    /\ R[2] > 0
    /\ \A g \in 2..R[2] : ~(R[1] % g = 0 /\ R[2] % g = 0)

AlgebraOps == {"Multiplied", "Divided", "Exponentiated", "Rooted"}

ArithmeticAndComparisons == {"+", "-", "==", "!=", "<", "<=", ">", ">="}

\* C1: binary +, binary - and the six comparisons are rejected whenever the
\* exponent vectors of the two operand types differ in some slot; none of
\* them is accepted for dimensionally different operands.
C1_MismatchRejected ==
    (tlast.op = "binary" /\ ~SameVector(tlast.lhs, tlast.rhs))
        => (tlast.acc \cap ArithmeticAndComparisons = {} /\ diag = "no match")

C1_Witness ==
    /\ tlast.op = "binary"
    /\ tlast.lhs.name = "LinearVelocity"
    /\ tlast.rhs.name = "Time"
    /\ tlast.acc = {}

C4_NamedOrRaw ==
    (tlast.op \in AlgebraOps /\ tlast.ok)
        => LET L == tlast.lhs.name
               R == tlast.rhs.name
               out == tlast.out
           IN  /\ out # NoType
               /\ out.name = IF out.dim \in DOMAIN registry
                             THEN registry[out.dim] ELSE "Quantity"
               /\ (tlast.op = "Divided" /\ L = "Length" /\ R = "Time")
                      => out.name = "LinearVelocity"
               /\ (tlast.op = "Multiplied" /\ L = "Length" /\ R = "Length")
                      => out.name = "Area"
               /\ (tlast.op = "Divided" /\ L = "Length" /\ R = "Length")
                      => out.name = "Number"
               /\ (tlast.op = "Multiplied" /\ L = "Angle" /\ R = "Time"
                       /\ "AngleTime" \notin classes)
                      => out = Quantity(RatioDims(<<0, 0, 1, 0, 1, 0, 0, 0>>))

C4_Witness ==
    /\ tlast.op = "Multiplied"
    /\ tlast.lhs.name = "Angle"
    /\ tlast.rhs.name = "Time"
    /\ tlast.out.name = "Quantity"

\* the types user code can put in place of T without changing its vector
Alternatives(T) ==
    {T, BaseOf(T), Named(BaseOf(T))} \cup {t \in OperandTypes : SameVector(t, T)}

\* C5: the type of a * b and of a / b depends on the exponent vectors of the
\* operands only: with either operand replaced by any other type of the same
\* vector (raw, registered named type, another class over the same Quantity)
\* the result type is the same.
C5_ResultFromVectorsOnly ==
    /\ tlast.op = "Multiplied"
           => \A L \in Alternatives(tlast.lhs), R \in Alternatives(tlast.rhs) :
                  Multiplied(L, R) = tlast.out
    /\ tlast.op = "Divided"
           => \A L \in Alternatives(tlast.lhs), R \in Alternatives(tlast.rhs) :
                  Divided(L, R) = tlast.out

C5_Witness ==
    /\ tlast.op = "Multiplied"
    /\ tlast.lhs.name = "Number"
    /\ tlast.rhs.name = "CAngle"
    /\ tlast.out.name = "Angle"

\* C8: every exponent slot of a type produced by Multiplied, Divided,
\* Exponentiated or Rooted is in lowest terms with a positive denominator, so
\* a result whose vector equals a registered vector is that registry key and
\* resolves to the unit registered for it.
C8_SlotsReduced ==
    (tlast.op \in AlgebraOps /\ tlast.ok)
        => /\ \A i \in Slots : LowestTerms(tlast.out.dim[i])
           /\ \A k \in DOMAIN registry :
                  SameVector(tlast.out, Quantity(k))
                      => (tlast.out.dim = k /\ tlast.out.name = registry[k])

C8_Witness ==
    /\ tlast.op = "Exponentiated"
    /\ tlast.lhs.dim[2] = ratio(1, 2)
    /\ tlast.R = ratio(2, 1)
    /\ tlast.out.name = "Length"

\* the declarations of the headers that specialize LookupName, among the
\* first n
Registering(n) == {i \in 1..n : Decls[i].lookup}

\* C9: once the declarations of the headers are processed, the registry maps
\* the exponent vector of each declared unit to that unit, no vector is
\* claimed by two of them, and each declaration has added exactly one entry.
C9_RegistryOfDeclaredUnits ==
    LET n == pcDecl - 1
        header == {k \in DOMAIN registry :
                     \E i \in Registering(Len(Decls)) : registry[k] = Decls[i].name}
    IN  /\ \A i \in Registering(n) :
             /\ RatioDims(Decls[i].exps) \in DOMAIN registry
             /\ registry[RatioDims(Decls[i].exps)] = Decls[i].name
        /\ \A i, j \in Registering(n) :
             Decls[i].exps = Decls[j].exps => i = j
        /\ Cardinality(header) = Cardinality(Registering(n))

C9_Witness ==
    /\ pcDecl > Len(Decls)
    /\ registry[AngleT.dim] = "Angle"
    /\ "CAngle" \in classes
    /\ Cardinality(DOMAIN registry) = Cardinality(Registering(Len(Decls)))

\* the declaration claims a vector that a unit of the headers has registered
Redeclares(T) ==
    \E i \in Registering(Len(Decls)) :
        /\ Decls[i].name # T.name
        /\ RatioDims(Decls[i].exps) = T.dim
        /\ ClassDecl(T.name).lookup

\* C10 as stated: a unit declared with an exponent vector that already has a
\* registry entry replaces the entry without a diagnostic, and lookups of the
\* vector return the unit declared last.
C10_LastDeclarationWins ==
    (tlast.op = "declare" /\ Redeclares(tlast.lhs))
        => /\ diag = ""
           /\ LookupName(Quantity(tlast.lhs.dim)) = tlast.lhs

\* C10 amended: a unit declared with an exponent vector that already has a
\* registry entry is rejected with a diagnostic (redefinition of the
\* LookupName specialization); the entry is unchanged, and lookups of the
\* vector keep returning the unit declared first.
C10_RedeclarationRejected ==
    (tlast.op = "declare" /\ Redeclares(tlast.lhs))
        => /\ diag = "redefinition of LookupName"
           /\ ~tlast.ok
           /\ tlast.lhs.name \notin classes
           /\ \E i \in Registering(Len(Decls)) :
                  /\ RatioDims(Decls[i].exps) = tlast.lhs.dim
                  /\ LookupName(Quantity(tlast.lhs.dim)).name = Decls[i].name

C10_Witness ==
    /\ tlast.op = "declare"
    /\ tlast.lhs.name = "Energy"
    /\ diag = "redefinition of LookupName"
    /\ LookupName(Quantity(tlast.lhs.dim)).name = "Torque"

\* C14 as stated: the type of a + b and of a - b is the named type
\* registered for the left operand's exponent vector when one is registered,
\* also when the left operand is a raw Quantity and the right one the named
\* type.
C14_LeftNamedType ==
    (tlast.op = "binary" /\ "+" \in tlast.acc)
        => /\ tlast.out = Named(BaseOf(tlast.lhs))
           /\ BinaryType("-", tlast.lhs, tlast.rhs) = Named(BaseOf(tlast.lhs))

\* C14 amended: the type of an accepted a + b and a - b is the type of the
\* left operand itself, whatever the type of the right operand: a raw
\* Quantity on the left gives a raw Quantity, also when the right operand is
\* the named type of its vector, and a named type on the left gives that
\* named type.
C14_LeftOperandType ==
    (tlast.op = "binary" /\ "+" \in tlast.acc)
        => /\ "-" \in tlast.acc
           /\ tlast.out = tlast.lhs
           /\ BinaryType("-", tlast.lhs, tlast.rhs) = tlast.lhs

C14_Witness ==
    /\ tlast.op = "binary"
    /\ tlast.lhs = BaseOf(ClassType(ClassDecl("Length")))
    /\ tlast.rhs.name = "Length"
    /\ tlast.out.name = "Quantity"

(***************************************************************************)
(* Properties of the unit constants                                        *)
(***************************************************************************)
ScaledMacros == {"NEW_UNIT_LITERAL", "NEW_METRIC_PREFIXES"}

\* C11: a declaration made with NEW_UNIT_LITERAL, and the eight made by one
\* NEW_METRIC_PREFIXES, leave the registry of LookupName unchanged: the
\* registered exponent vectors and the class each maps to are the same
\* before and after it, and so are the declared classes.
C11_RegistryUnchanged ==
    [][(units' # units \/ (tlast'.op \in ScaledMacros /\ tlast' # tlast))
           => (registry' = registry /\ classes' = classes)]_vars

C11_Witness ==
    /\ tlast.op = "NEW_METRIC_PREFIXES"
    /\ tlast.ok
    /\ {"Tm", "cm", "nm", "in", "inps"} \subseteq DOMAIN units
    /\ registry = RegistryAfter(Len(Decls))

\* the powers of ten of the metric prefixes
PowerOfTen ==
    [p \in {"T", "G", "M", "k", "c", "m", "u", "n"} |->
        CASE p = "T" -> 12 [] p = "G" -> 9 [] p = "M" -> 6 [] p = "k" -> 3
          [] p = "c" -> -2 [] p = "m" -> -3 [] p = "u" -> -6 [] p = "n" -> -9]

\* to_u was applied to the result of from_u, for the same unit u
RoundTrip == last.op = "to" /\ prev.op = "from" /\ prev.unit = last.unit

\* each metric-prefixed unit that is declared is its base scaled by the power
\* of ten of its prefix
PrefixesScale ==
    \A d \in PrefixedUnits, p \in DOMAIN PowerOfTen :
        (p \o d.base) \in DOMAIN units
            => LET u == units[p \o d.base]
                   b == units[d.base].val
               IN  /\ u.of = d.base
                   /\ u.exp10 = PowerOfTen[p]
                   /\ u.val = IF u.exp10 > 0 THEN DMul(b, E(u.exp10))
                              ELSE DDiv(b, E(-u.exp10))

\* C12 as stated: for every scaled unit u and value v, to_u(from_u(v)) == v
\* and from_u(v).internal() == v * m.internal(), and the metric prefixes are
\* the powers of ten 1E12 .. 1E-9 of the base.
C12_RoundTripExact ==
    /\ RoundTrip => DEq(last.v, prev.v)
    /\ last.op = "from" => x.val = DMul(last.v, units[last.unit].val)
    /\ PrefixesScale

\* C12 amended: from_u(v).internal() is the double product v * m.internal(),
\* of the type of u; to_u(from_u(v)) is v or one of the two doubles next to
\* v; each metric-prefixed unit is its base multiplied by 1E12, 1E9, 1E6, 1E3
\* or divided by 1E2, 1E3, 1E6, 1E9, and from_(1.0) of it has the magnitude of
\* that constant.
C12_RoundTripRounded ==
    /\ RoundTrip => last.v \in {DPred(prev.v), prev.v, DSucc(prev.v)}
    /\ last.op = "from"
           => /\ x.val = DMul(last.v, units[last.unit].val)
              /\ x.type = units[last.unit].type
              /\ last.v = Lit(1, 1) => x.val = units[last.unit].val
    /\ PrefixesScale

C12_Witness ==
    /\ RoundTrip
    /\ last.unit = "cm"
    /\ prev.v = Lit(9, 10)
    /\ last.v = DPred(prev.v)
    /\ "Tm" \in DOMAIN units

(***************************************************************************)
(* Properties of the compiled program                                      *)
(***************************************************************************)
\* r is a double nearest to n / d quanta, or the infinity of its sign when
\* n / d is beyond the largest double by half a unit in the last place
Nearest(r, n, d) ==
    IF 2 * Abs(n) >= (2 * MaxFloat + 2 ^ MaxShift) * Abs(d)
    THEN r = Sgn(n) * Sgn(d) * Inf
    ELSE r \in Floats /\ \A f \in Floats : Abs(r * d - n) <= Abs(f * d - n)

\* neither zero, subnormal, infinite nor NaN
Normal(v) == IsFinite(v) /\ Abs(v) >= 2 ^ (Precision - 1)

\* the number of doubles one steps over from u to v
UlpsApart(u, v) ==
    IF IsFinite(u) /\ IsFinite(v)
    THEN Cardinality({f \in Floats : (u < f /\ f <= v) \/ (v < f /\ f <= u)})
    ELSE IF u = v /\ u # NaN THEN 0 ELSE Cardinality(Floats)

\* every slot of r is the sum of the slots of a and b, as rational numbers
SlotwiseSum(r, a, b) ==
    \A i \in Slots :
        r.dim[i][1] * a.dim[i][2] * b.dim[i][2]
            = (a.dim[i][1] * b.dim[i][2] + b.dim[i][1] * a.dim[i][2]) * r.dim[i][2]

\* C3: a * b has the slot-wise sum of the operands' exponent vectors and the
\* double product of their magnitudes; a / b has the slot-wise difference
\* and the double quotient, whatever the dimensions of a and b.
C3_ProductAndQuotient ==
    /\ last.op = "*"
           => /\ SlotwiseSum(last.r.type, last.a.type, last.b.type)
              /\ (IsFinite(last.a.val) /\ IsFinite(last.b.val))
                     => Nearest(last.r.val, last.a.val * last.b.val, One)
    /\ last.op = "/"
           => /\ SlotwiseSum(last.a.type, last.r.type, last.b.type)
              /\ (IsFinite(last.a.val) /\ IsFinite(last.b.val) /\ last.b.val # 0)
                     => Nearest(last.r.val, last.a.val * One, last.b.val)
              /\ (IsFinite(last.a.val) /\ last.b.val = 0)
                     => ~IsFinite(last.r.val)

C3_Witness ==
    /\ last.op = "*"
    /\ last.a.type.name = "Length"
    /\ last.b.type.name = "Time"
    /\ last.r.type = Quantity(RatioDims(<<0, 1, 1, 0, 0, 0, 0, 0>>))
    /\ (last.a.val * last.b.val) % One # 0
    /\ Normal(last.r.val)

\* the last two operations are a * b and then (a * b) / b, b nonzero
MulThenDiv ==
    /\ prev.op = "*"
    /\ last.op = "/"
    /\ last.b = prev.b
    /\ prev.b.val # 0

\* C6 as stated: for all a and b with b nonzero, (a * b) / b has a's
\* exponent vector, is accepted by + and == with a, and has a's magnitude.
C6_RoundTripExact ==
    MulThenDiv
        => /\ SameVector(last.r.type, prev.a.type)
           /\ {"+", "=="} \subseteq Accepted(last.r.type, prev.a.type)
           /\ last.r.val = prev.a.val

\* C6 amended: for all a and b with b nonzero, (a * b) / b has a's exponent
\* vector and, unless a is a CAngle, is isomorphic to a (for a CAngle the
\* result is an Angle, which + rejects); when a * b neither overflows nor
\* underflows, its magnitude is a's up to rounding, at most one unit in the
\* last place away.
C6_RoundTripRounded ==
    MulThenDiv
        => /\ SameVector(last.r.type, prev.a.type)
           /\ IF prev.a.type.name = "CAngle"
              THEN last.r.type = AngleT /\ "+" \notin Accepted(last.r.type, prev.a.type)
              ELSE Isomorphic(last.r.type, prev.a.type)
           /\ (Normal(prev.r.val) \/ prev.a.val = 0)
                  => UlpsApart(last.r.val, prev.a.val) <= 1

C6_Witness ==
    /\ MulThenDiv
    /\ prev.a.type.name = "Length"
    /\ prev.b.type.name = "Time"
    /\ Normal(prev.r.val)
    /\ UlpsApart(last.r.val, prev.a.val) = 1

\* the last two operations are pow<n>(q) and then root<n> of the result
PowThenRoot ==
    /\ prev.op = "pow"
    /\ last.op = "root"
    /\ last.R = prev.R

C13_SumOfInternals ==
    (last.op \in {"+", "-"} /\ last.ok) =>
        /\ Isomorphic(last.a.type, last.b.type)
        /\ last.r.val = IF last.op = "+" THEN DAdd(last.a.val, last.b.val)
                        ELSE DSub(last.a.val, last.b.val)
        /\ x = last.a
        /\ last.b \in RightObjects

C13_Witness ==
    /\ last.op = "+" /\ last.ok
    /\ last.a = Object(LengthT, 15)
    /\ last.b = Object(BaseOf(LengthT), 180)
    /\ last.r.val = Lit(195, 1)
    /\ x = Object(LengthT, 15)

\* C15: assigning a double to a quantity is accepted only when all eight
\* exponents are zero; for a type with a nonzero exponent it is rejected
\* with a diagnostic and the object keeps its value
C15_AssignOnlyNumber ==
    last.op = "=" =>
        /\ last.ok => \A i \in Slots : ratio_equal(last.a.type.dim[i], ratio(0, 1))
        /\ (\E i \in Slots : ~ratio_equal(last.a.type.dim[i], ratio(0, 1))) =>
              ~last.ok /\ diag # "" /\ x = last.a
        /\ last.ok => x = Value(last.a.type, last.k)

C15_Witness ==
    /\ last.op = "="
    /\ last.a = Object(BaseOf(LengthT), 15)
    /\ last.k = Lit(5, 2)
    /\ ~last.ok
    /\ diag = "static assertion failed"
    /\ x = last.a

\* C16: for a quantity a and a double k, a * k holds a.internal() * k and
\* a / k holds a.internal() / k, k * a is what a * k is, and every result
\* has the type of a
C16_ScalarKeepsType ==
    last.op \in {"x*k", "k*x", "x/k"} =>
        /\ last.ok
        /\ last.r.type = last.a.type
        /\ last.r.val = IF last.op = "x/k" THEN DDiv(last.a.val, last.k)
                        ELSE DMul(last.a.val, last.k)
        /\ last.op = "k*x" => DEq(last.r.val, DMul(last.a.val, last.k))
        /\ x = last.a

C16_Witness ==
    /\ last.op = "x/k"
    /\ last.a = Object(LengthT, 15)
    /\ last.k = Lit(5, 2)
    /\ last.r = Value(LengthT, Lit(6, 1))

\* C17: for every v the compass angle v_cDeg compares equal to the standard
\* angle of 90 - v degrees, and -(+(v_cDeg)) compares equal to the standard
\* angle of 90 + v degrees (+c is c, so -(+c) is the negation of a c that
\* a unary plus may have produced)
C17_CompassEqualsStandard ==
    (last.op = "==" /\ last.a.type = CAngleT /\ last.b.type = AngleT) =>
        \A v \in DegValues :
            /\ (prev.op # "-x" /\ last.a = Object(CAngleT, v)
                    /\ last.b = Object(AngleT, 90 - v)) => last.ok /\ last.t
            /\ (prev.op = "-x" /\ prev.a = Object(CAngleT, v)
                    /\ last.b = Object(AngleT, 90 + v)) => last.ok /\ last.t

\* C18: an accepted operation that takes one CAngle where an Angle or its
\* Quantity is expected (construction of an Angle or of the Quantity, +=,
\* -=, +, -, a comparison, * or / by another quantity) reads 90 degrees
\* minus the compass value for it
C18_CompassNeverRaw ==
    LET c == IF last.b.type = CAngleT THEN last.b ELSE last.a
    IN  (/\ last.op \in {"Angle", "Quantity", "+=", "-=", "+", "-", "==", "<", "*", "/"}
         /\ last.ok
         /\ (last.a.type = CAngleT) # (last.b.type = CAngleT))
            => last.used = DSub(M_PI_2, c.val)

\* 180 * deg
HalfTurn == TimesScalar(deg, Lit(180, 1))

\* for an input within two rotations of zero, the result r is the input
\* plus a whole number of rotations, as far as doubles of MantDig bits can
\* tell: within 1/8 rad of in + n * rot (the rounding of a larger input is
\* itself a large part of a rotation)
Congruent(in, r) ==
    LET two == DMul(Lit(2, 1), rot.val)
    IN  (~DLess(in.val, DNeg(two)) /\ ~DLess(two, in.val)) =>
            \E n \in -2..2 :
                LET d == DSub(DAdd(in.val, DMul(Lit(n, 1), rot.val)), r.val)
                IN  DLess(DNeg(Lit(1, 8)), d) /\ DLess(d, Lit(1, 8))

\* C19: constrainAngle360 maps every input angle to the angle in
\* [0, 360 degrees) that differs from it by a whole number of rotations; -15
\* degrees is mapped to 345 degrees
C19_Constrain360Range ==
    (last.op = "constrainAngle360" /\ last.ok) =>
        /\ ~DLess(last.r.val, DZero)
        /\ DLess(last.r.val, rot.val)
        /\ Congruent(Received(AngleT, last.a), last.r)
        /\ last.a = Object(AngleT, -15) => last.r = Object(AngleT, 345)

\* C20 as stated: constrainAngle180 maps every input angle to the angle in
\* (-180 degrees, 180 degrees] that differs from it by a whole number of
\* rotations; 180 degrees is mapped to 180 degrees and -180 degrees is never
\* returned
C20_HalfOpenAbove ==
    (last.op = "constrainAngle180" /\ last.ok) =>
        /\ DLess(DNeg(HalfTurn.val), last.r.val)
        /\ ~DLess(HalfTurn.val, last.r.val)
        /\ Congruent(Received(AngleT, last.a), last.r)
        /\ last.a = Object(AngleT, 180) => last.r = Object(AngleT, 180)

\* C20: constrainAngle180 maps every input angle, those below -180 degrees
\* included, to an angle in [-180 degrees, 180 degrees) that differs from it
\* by a whole number of rotations up to the rounding of doubles; 180 degrees
\* and -180 degrees are both mapped to -180 degrees and 180 degrees is never
\* returned
C20_HalfOpenBelow ==
    (last.op = "constrainAngle180" /\ last.ok) =>
        /\ ~DLess(last.r.val, DNeg(HalfTurn.val))
        /\ DLess(last.r.val, HalfTurn.val)
        /\ Congruent(Received(AngleT, last.a), last.r)
        /\ last.a \in {Object(AngleT, 180), Object(AngleT, -180)}
              => last.r = Object(AngleT, -180)
        /\ x = last.a

C20_Witness ==
    /\ last.op = "constrainAngle180" /\ last.ok
    /\ last.a = Object(AngleT, 180)
    /\ last.r = Object(AngleT, -180)

(***************************************************************************)
(* Properties of the conversions                                           *)
(***************************************************************************)
\* C21: the _fahrenheit literal and from_fahrenheit both store the Kelvin
\* magnitude (F - 32) * 5/9 + 273.15 for a Fahrenheit value F, and
\* to_fahrenheit of what they made is F
C21_FahrenheitAgree ==
    /\ (last.op \in {"from", "literal"} /\ last.unit = "fahrenheit") =>
          x.val = DAdd(DMul(DSub(last.v, Lit(32, 1)), DDiv(Lit(5, 1), Lit(9, 1))),
                       Lit(27315, 100))
    /\ (last.op = "to" /\ last.unit = "fahrenheit" /\ prev.unit = "fahrenheit") =>
          last.v = prev.v

\* |a|
DAbs(a) == IF a.m < 0 THEN DNeg(a) ELSE a

\* one unit in the last place of the finite double a
Ulp(a) == Fl(1, 1, a.e)

\* the double of largest magnitude in S
Largest(S) == CHOOSE a \in S : \A b \in S : ~DLess(DAbs(a), DAbs(b))

\* r is within n units in the last place of the largest of S from v
Within(r, v, n, S) ==
    ~DLess(DMul(Lit(n, 1), Ulp(Largest(S))), DAbs(DSub(r, v)))

\* C22 as stated: to_X(from_X(v)) == v for kelvin, celsius and fahrenheit
C22_TemperatureRoundTripExact ==
    (/\ last.op = "to" /\ prev.op = "from"
     /\ last.unit \in TemperatureUnits /\ last.unit = prev.unit) => last.v = prev.v

\* C22: the stored magnitude is Kelvin; to_kelvin(from_kelvin(v)) is v,
\* to_celsius(from_celsius(v)) is within one unit in the last place of the
\* Kelvin value from v and to_fahrenheit(from_fahrenheit(v)) within four;
\* to_celsius(from_celsius(0.0)) is 0.0 and to_celsius(from_kelvin(0)) is
\* -273.15
C22_TemperatureRoundTripRounded ==
    /\ (last.op = "from" /\ last.unit = "kelvin") => x.val = last.v
    /\ (last.op = "to" /\ prev.op = "from" /\ last.unit \in TemperatureUnits) =>
        /\ last.unit = prev.unit =>
              CASE last.unit = "kelvin" -> last.v = prev.v
                [] last.unit = "celsius" ->
                      Within(last.v, prev.v, 1, {prev.v, x.val, Lit(27315, 100)})
                [] last.unit = "fahrenheit" ->
                      Within(last.v, prev.v, 4, {prev.v, x.val, Lit(27315, 100), Lit(32, 1)})
        /\ (last.unit = "celsius" /\ prev.unit = "celsius" /\ prev.v = DZero)
              => last.v = DZero
        /\ (last.unit = "celsius" /\ prev.unit = "kelvin" /\ prev.v = DZero)
              => last.v = DNeg(Lit(27315, 100))

C22_Witness ==
    /\ last.op = "to" /\ prev.op = "from"
    /\ last.unit = "celsius" /\ prev.unit = "celsius"
    /\ prev.v = Lit(1, 10)
    /\ last.v # prev.v
    /\ x.val = DAdd(Lit(1, 10), Lit(27315, 100))

\* the magnitude of one u: 1 radian, pi / 180, one full rotation
ScaleOf(u) ==
    CASE u \in {"stRad", "cRad"} -> Lit(1, 1)
      [] u \in {"stDeg", "cDeg"} -> deg.val
      [] u \in {"stRot", "cRot"} -> rot.val

\* C23: for the standard units stRad, stDeg, stRot and the compass units
\* cRad, cDeg, cRot, from_u(v) is v of that unit's own scale (for a compass
\* unit, 90 degrees minus it) and to_u(from_u(v)) is v; both are asked here
\* only to within four units in the last place of the larger of v and 90,
\* so that the rounding of doubles is not what fails
C23_AngleRoundTrip ==
    /\ (last.op = "from" /\ last.unit \in StandardUnits) =>
          Within(x.val, DMul(last.v, ScaleOf(last.unit)), 4, {x.val})
    /\ (last.op = "from" /\ last.unit \in CompassUnits) =>
          Within(x.val, DSub(M_PI_2, DMul(last.v, ScaleOf(last.unit))), 4,
                 {M_PI_2, DMul(last.v, ScaleOf(last.unit))})
    /\ (/\ last.op = "to" /\ prev.op = "from" /\ last.unit = prev.unit
        /\ last.unit \in StandardUnits \cup CompassUnits) =>
          Within(last.v, prev.v, 4, {prev.v, Lit(90, 1)})

\* C27: for the compass units cRad, cDeg, cRot the standard Angle that the
\* literal v_u converts to is from_u(v), to within four units in the last
\* place of the larger of the two and of pi / 2
C27_LiteralIsFrom ==
    (last.op = "literal" /\ last.unit \in CompassUnits) =>
        Within(Received(AngleT, x).val, from_(last.unit, last.v).val, 4,
               {Received(AngleT, x).val, from_(last.unit, last.v).val, M_PI_2})

\* the last two steps were toAngular<Length>(a, d) and then toLinear<Angle>
\* of its result with the same finite nonzero d, and both compiled
LinearRoundTrip ==
    /\ last.op = "toLinear" /\ last.Q = AngleT /\ last.ok
    /\ prev.op = "toAngular" /\ prev.Q = LengthT /\ prev.ok
    /\ last.d = prev.d /\ last.d.val.k = "fin" /\ last.d.val.m # 0

\* the magnitudes and the type of toLinear<Q> and toAngular<Q>
LinearMagnitudes ==
    /\ (last.op = "toLinear" /\ last.ok) =>
          /\ x.val = DMul(last.a.val, DDiv(last.d.val, Lit(2, 1)))
          /\ x.type = Swapped(last.Q)
    /\ (last.op = "toAngular" /\ last.ok) =>
          /\ x.val = DDiv(last.a.val, DDiv(last.d.val, Lit(2, 1)))
          /\ x.type = Swapped(last.Q)

Rounded(f) == last.op = f /\ last.ok /\ DLess(DZero, last.b.val)

DLeq(a, b) == ~DLess(b, a)

\* n units in the last place of the largest of the magnitudes S
Slack(n, S) == DMul(Lit(n, 1), Ulp(Largest(S)))

\* ceil(a, b) - floor(a, b) of the last step's operands
CeilMinusFloor ==
    DSub(rounded("ceil", last.a, last.b).val, rounded("floor", last.a, last.b).val)

Term(Q, i, always) ==
    IF num(Q.dim[i]) = 0 THEN <<>>
    ELSE <<prefixes[i]>>
         \o (IF always \/ num(Q.dim[i]) # 1 \/ den(Q.dim[i]) # 1
             THEN <<"^", ToString(num(Q.dim[i]))>> ELSE <<>>)
         \o (IF den(Q.dim[i]) # 1 THEN <<"/", ToString(den(Q.dim[i]))>> ELSE <<>>)

DimensionString(Q, always) ==
    Term(Q, 1, always) \o Term(Q, 2, always) \o Term(Q, 3, always) \o Term(Q, 4, always)
        \o Term(Q, 5, always) \o Term(Q, 6, always) \o Term(Q, 7, always)
        \o Term(Q, 8, always)

\* the last step wrote a Quantity<...> that no class names to a stream
StreamedUnnamed ==
    last.op = "<<" /\ last.a.type.name = "Quantity" /\ Named(last.a.type) = last.a.type

\* C25 as stated: an unnamed quantity is written as its magnitude followed,
\* for every slot with a nonzero exponent and no other, in the order mass,
\* length, time, current, angle, temperature, luminosity, amount, by the
\* symbol, '^' and the numerator, and '/' and the denominator when it is
\* not 1; a slot whose exponent is exactly 1 included
C25_StreamAlwaysPower ==
    StreamedUnnamed =>
        /\ last.out.mag = last.a.val
        /\ last.out.text = DimensionString(last.a.type, TRUE)

\* C25: the same, except that a slot whose exponent is exactly 1 is
\* written as the symbol alone
C25_StreamPowerUnlessOne ==
    StreamedUnnamed =>
        /\ last.out.mag = last.a.val
        /\ last.out.text = DimensionString(last.a.type, FALSE)

C25_Witness ==
    /\ StreamedUnnamed
    /\ \E i \in Slots : num(last.a.type.dim[i]) = 1 /\ den(last.a.type.dim[i]) = 1
    /\ \E i \in Slots : den(last.a.type.dim[i]) = 2
    /\ last.out.text = <<"_kg", "_m", "^", "1", "/", "2", "_mol", "^", "-3", "/", "2">>

\* C26: for vectors of every size, operator- returns the component-wise
\* difference of the receiver and the argument and operator+ their
\* component-wise sum, and neither changes the receiver or the argument
C26_VectorDifference ==
    /\ (x.type.name = "Vector" /\ last.op = "-") =>
          /\ Len(last.r.val) = x.type.size
          /\ \A i \in 1..x.type.size :
                last.r.val[i] = Value(LengthT, DSub(last.a.val[i].val, last.b.val[i].val))
    /\ (x.type.name = "Vector" /\ last.op = "+") =>
          /\ Len(last.r.val) = x.type.size
          /\ \A i \in 1..x.type.size :
                last.r.val[i] = Value(LengthT, DAdd(last.a.val[i].val, last.b.val[i].val))
    /\ (x.type.name = "Vector" /\ last.op \in {"+", "-"}) =>
          (x = last.a /\ last.b1 = last.b)

\* the class NEW_UNIT declared under the name
Class(name) == ClassType(ClassDecl(name))

\* C28: AbstractPose<ratio<k>> has x and y of type Length, LinearVelocity,
\* LinearAcceleration and orientation of type Angle, AngularVelocity,
\* AngularAcceleration for k = 0, 1, 2, and Exponentiated<Time, ratio<0>>
\* is Number
C28_PoseTypes ==
    /\ Exponentiated(TimeT, ratio(0, 1)) = NumberT
    /\ x.type.name = "AbstractPose" =>
          LET k == num(x.type.derivatives)
              Len_ == Class(<<"Length", "LinearVelocity", "LinearAcceleration">>[k + 1])
              Ori == Class(<<"Angle", "AngularVelocity", "AngularAcceleration">>[k + 1])
          IN  /\ k \in {0, 1, 2}
              /\ x.val.x.type = Len_
              /\ x.val.y.type = Len_
              /\ x.val.orientation.type = Ori

C28_Witness ==
    /\ x.type.name = "AbstractPose"
    /\ x.type.derivatives = ratio(2, 1)
    /\ x.val.x.type.name = "LinearAcceleration"
    /\ x.val.orientation.type.name = "AngularAcceleration"

\* the last step was an operation on the pose x
PoseStep == x.type.name = "AbstractPose" /\ last.op # "new"

\* C29: whatever came before, an operation on a pose other than
\* setOrientation leaves the stored orientation as it was; setOrientation
\* stores its argument and leaves x and y as they were; a compound
\* assignment to the result of getOrientation() leaves the whole pose as
\* it was and computes from a copy; and no compound assignment changes its
\* right operand
C29_OrientationOwned ==
    /\ (PoseStep /\ last.op # "setOrientation") =>
          x.val.orientation = last.a.val.orientation
    /\ (PoseStep /\ last.op = "setOrientation") =>
          /\ x.val.x = last.a.val.x
          /\ x.val.y = last.a.val.y
          /\ x.val.orientation = Received(last.a.val.orientation.type, last.b)
    /\ (PoseStep /\ last.op \in {"getOrientation+=", "getOrientation-="}) =>
          /\ x = last.a
          /\ last.r.type = x.val.orientation.type
          /\ last.r.val = IF last.op = "getOrientation+="
                          THEN DAdd(x.val.orientation.val, last.b.val)
                          ELSE DSub(x.val.orientation.val, last.b.val)
    /\ (PoseStep /\ last.op \in {"+=getOrientation", "-=getOrientation"}) =>
          x = last.a
    /\ PoseStep => last.b1 = last.b

C29_Witness ==
    /\ PoseStep
    /\ last.op = "getOrientation+="
    /\ prev.op = "setOrientation"
    /\ x.val.orientation # prev.a.val.orientation
    /\ last.r # x.val.orientation
    /\ x = last.a

====
